---- MODULE Spec2Model ----
(***************************************************************************)
(* Verification model of the cto.new OpenAI-compatible bridge:             *)
(*   - the conversation correlator  (src/src/services/conversation.ts)     *)
(*   - the upstream relay           (services/chat.ts, src/unnamed/part_002)*)
(*   - the request orchestrator     (routes/api.ts,   src/unnamed/part_006)*)
(* Strings are sequences of one-character strings, so that serialisation,  *)
(* hashing, trimming and prefix tests are computed the way the code does.  *)
(***************************************************************************)
EXTENDS Integers, Sequences, FiniteSets, TLC

VARIABLES
    kv,          \* Deno KV, prefix ["conversations"]: hash -> ConversationState
    now,         \* Date.now() in milliseconds
    lastReg,     \* history variable: the latest registerConversation call
    lastLookup   \* history variable: the latest findExistingConversation call

VARIABLES
    form,               \* "stream" (streamChatGenerator) or "aggregate" (nonStreamChat)
    pc,                 \* position of the relay invocation
    trigger,            \* state of the POST /engine-agent/chat call
    wsClosed,          \* ws.close() has been called
    closedAt,           \* how many records had been emitted when ws.close() ran, -1 before
    receivedUpdate,
    lastBufferType,
    inThinkingBlock,
    modeByType,
    prevContentByType,
    emitted,            \* stream: the chunks yielded; aggregate: the pieces added to fullContent
    nEvents,            \* channel events delivered so far
    unheard,            \* the events delivered while no handler was installed
    ignoredLast,        \* the last message handled was unparseable or of unknown type
    seen                \* history variable: the non-empty contents received per buffer type

VARIABLES
    reqs,        \* per client: its latest POST /v1/chat/completions request
    uuids,       \* number of conversation ids drawn from crypto.randomUUID()
    stats        \* request statistics written by recordRequest

convVars == <<kv, now, lastReg, lastLookup>>
relayVars == <<form, pc, trigger, wsClosed, closedAt, receivedUpdate, lastBufferType, inThinkingBlock,
               modeByType, prevContentByType, emitted, nEvents, unheard, ignoredLast, seen>>
\* The two forms of the relay run on one sequence of channel events
VARIABLES
    fEvents,            \* the events the channel delivers after it opened
    fDuring,            \* how many of them arrive before the trigger call settles
    fStream,            \* the deltas of streamChatGenerator, None before it ran
    fAggregate          \* the outcome of nonStreamChat, None before it ran

\* The credential pool, the KV entries under ["cookies", id]
VARIABLES
    cookies,            \* the stored credentials, in key order
    picked              \* what getAvailableCookie returned last, None before

poolVars == <<cookies, picked>>
orchVars == <<reqs, uuids, stats>>
formsVars == <<fEvents, fDuring, fStream, fAggregate>>
\* wsMessageIterator (part_002:63-113) and the channel that feeds it
VARIABLES
    queue,              \* the events pushed by the handlers and not yet shifted
    resolver,           \* Null, "pending" (the awaited promise) or "resolved"
    itPc,               \* where the generator stands
    yielded,            \* the events it has yielded, in order
    arrived             \* history variable: the events the channel delivered

\* Calls of the KV-backed services that are in progress at the same time, each
\* suspended at one of its awaits
VARIABLES
    tasks               \* per task: the call, its position and its local variables

iterVars == <<queue, resolver, itPc, yielded, arrived>>
taskVars == <<tasks>>
vars == <<convVars, relayVars, orchVars, formsVars, poolVars, iterVars, taskVars>>

-----------------------------------------------------------------------------
(* Bounds of the model                                                     *)

MaxTicks == 2      \* clock advances per behaviour
MaxHist == 1       \* messages in a registered history
MaxEvents == 4     \* channel events consumed by one relay invocation
MaxLen == 3        \* characters in the content of one update
MaxRequests == 3
\* the most credentials in the pool, and the largest usage count
MaxCookies == 3
MaxCount == 2
\* the longest event sequence given to both forms of the relay
MaxFormEvents == 3
\* the events followed in a streaming relay whose client may go away
MaxCancelEvents == 2   \* chat-completions requests received per behaviour

-----------------------------------------------------------------------------
(* Strings                                                                 *)

Null == "null"
None == [op |-> "none"]

Letters == <<"a","b","c","d","e","f","g","h","i","j","k","l","m",
             "n","o","p","q","r","s","t","u","v","w","x","y","z">>
HexChars == <<"0","1","2","3","4","5","6","7","8","9","a","b","c","d","e","f">>
CharSet ==
    {Letters[i] : i \in 1..26}
      \cup {"\t", "\n", " ", "\"", ",", "/", ":", "<", ">", "[", "\\", "]", "{", "}"}

\* String.prototype.charCodeAt(0) for the characters the model uses
charCodeAt ==
    [c \in CharSet |->
        IF \E i \in 1..26 : Letters[i] = c
        THEN 96 + (CHOOSE i \in 1..26 : Letters[i] = c)
        ELSE CASE c = "\t" -> 9
               [] c = "\n" -> 10
               [] c = " "  -> 32
               [] c = "\"" -> 34
               [] c = ","  -> 44
               [] c = "/"  -> 47
               [] c = ":"  -> 58
               [] c = "<"  -> 60
               [] c = ">"  -> 62
               [] c = "["  -> 91
               [] c = "\\" -> 92
               [] c = "]"  -> 93
               [] c = "{"  -> 123
               [] c = "}"  -> 125]

RECURSIVE Concat(_)
\* Array.prototype.join("") / repeated += : concatenation of a list of strings
Concat(ss) == IF ss = <<>> THEN <<>> ELSE Head(ss) \o Concat(Tail(ss))

\* String.prototype.startsWith
startsWith(s, p) == Len(p) <= Len(s) /\ SubSeq(s, 1, Len(p)) = p

\* String.prototype.slice(n) / substring(0, n)
sliceFrom(s, n) == SubSeq(s, n + 1, Len(s))
substring0(s, n) == SubSeq(s, 1, IF n < Len(s) THEN n ELSE Len(s))

\* the characters of the role names and JSON property names used
Text(w) ==
    CASE w = "user"      -> <<"u","s","e","r">>
      [] w = "assistant" -> <<"a","s","s","i","s","t","a","n","t">>
      [] w = "role"      -> <<"r","o","l","e">>
      [] w = "content"   -> <<"c","o","n","t","e","n","t">>

\* JSON string escaping of one character (quote, backslash, newline)
JsonEscapeChar(c) ==
    IF c = "\"" THEN <<"\\", "\"">>
    ELSE IF c = "\n" THEN <<"\\", "n">>
    ELSE IF c = "\t" THEN <<"\\", "t">>
    ELSE IF c = "\\" THEN <<"\\", "\\">>
    ELSE <<c>>

\* JSON.stringify of a string value
JsonString(s) == <<"\"">> \o Concat([i \in 1..Len(s) |-> JsonEscapeChar(s[i])]) \o <<"\"">>

RECURSIVE JoinComma(_)
JoinComma(ss) ==
    IF ss = <<>> THEN <<>>
    ELSE IF Len(ss) = 1 THEN Head(ss)
    ELSE Head(ss) \o <<",">> \o JoinComma(Tail(ss))

-----------------------------------------------------------------------------
(* Conversation correlator: src/src/services/conversation.ts               *)

CONVERSATION_TTL_MS == 1000 * 60 * 60

Models == {"ClaudeSonnet4_5", "GPT5"}
ChatIds == {"c1", "c2"}
Roles == {"user", "assistant"}
Contents == {<<"a">>, <<"b">>}

\* A ChatMessage as received in a request body.  isString = FALSE stands for
\* a message whose content is not a string (dropped by normalizeMessages).
RawMessages ==
    [role : Roles, content : Contents, isString : {TRUE}]
      \cup {[role |-> "user", content |-> <<>>, isString |-> FALSE]}

RECURSIVE SeqsUpTo(_, _)
SeqsUpTo(S, n) ==
    IF n = 0 THEN {<<>>}
    ELSE LET shorter == SeqsUpTo(S, n - 1)
         IN  shorter \cup {Append(s, x) : s \in {t \in shorter : Len(t) = n - 1}, x \in S}

\* messages.filter(typeof role/content === "string")
RECURSIVE filterValid(_)
filterValid(messages) ==
    IF messages = <<>> THEN <<>>
    ELSE IF Head(messages).isString THEN <<Head(messages)>> \o filterValid(Tail(messages))
    ELSE filterValid(Tail(messages))

normalizeMessages(messages) ==
    LET kept == filterValid(messages)
    IN  [i \in 1..Len(kept) |-> [role |-> kept[i].role, content |-> kept[i].content]]

\* JSON.stringify of one normalized message: {"role":"..","content":".."}
JsonMessage(m) ==
    <<"{">> \o JsonString(Text("role")) \o <<":">> \o JsonString(Text(m.role))
      \o <<",">> \o JsonString(Text("content")) \o <<":">> \o JsonString(m.content)
      \o <<"}">>

createHistoryKey(messages) ==
    <<"[">> \o JoinComma([i \in 1..Len(messages) |-> JsonMessage(messages[i])]) \o <<"]">>

\* (charCode % 256).toString(16).padStart(2, "0")
HexByte(c) ==
    LET b == charCodeAt[c] % 256
    IN  <<HexChars[(b \div 16) + 1], HexChars[(b % 16) + 1]>>

\* mutant: the key is the two hex digits of every character, uncut
fullHexKey(historyKey) ==
    [j \in 1..(2 * Len(historyKey)) |->
        HexByte(historyKey[(j + 1) \div 2])[2 - (j % 2)]]

\* the two hex digits of every character, joined, cut to 32 characters
getKvKey(historyKey) ==
    substring0([j \in 1..(2 * Len(historyKey)) |->
                   HexByte(historyKey[(j + 1) \div 2])[2 - (j % 2)]], 32)

\* getKvKey(createHistoryKey(h)), tabulated once for the short histories
NormalizedMessages == [role : Roles, content : Contents]
kvKeyTable ==
    [h \in SeqsUpTo(NormalizedMessages, MaxHist) |-> getKvKey(createHistoryKey(h))]
kvKeyOf(h) ==
    IF h \in DOMAIN kvKeyTable THEN kvKeyTable[h] ELSE getKvKey(createHistoryKey(h))

\* index (1-based) of the last message with role "user", 0 when there is none
lastUserIndex(normalized) ==
    LET idx == {i \in 1..Len(normalized) : normalized[i].role = "user"}
    IN  IF idx = {} THEN 0 ELSE CHOOSE i \in idx : \A j \in idx : j <= i

\* mutant: a record counts as expired from the moment it is one TTL old
expiredFromTtl(state, t) == t - state.lastUpdated >= CONVERSATION_TTL_MS

\* lines 101 and 149
Expired(state, t) == t - state.lastUpdated > CONVERSATION_TTL_MS

\* mutant: the sweep deletes nothing
cleanupKeepsAll(store, t) == store

\* the store after cleanupExpiredConversations() run at time t
cleanupExpiredConversations(store, t) ==
    [k \in {x \in DOMAIN store : ~Expired(store[x], t)} |-> store[k]]

kvSet(store, k, v) == [x \in (DOMAIN store) \cup {k} |-> IF x = k THEN v ELSE store[x]]
kvDelete(store, k) == [x \in (DOMAIN store) \ {k} |-> store[x]]

\* mutant: the model of the stored record is not compared
findIgnoringModel(store, messages, model, t) ==
    LET cleaned    == cleanupExpiredConversations(store, t)
        normalized == normalizeMessages(messages)
        lui        == lastUserIndex(normalized)
        historyBeforeUser == SubSeq(normalized, 1, lui - 1)
        kvKey      == kvKeyOf(historyBeforeUser)
    IN  IF lui = 0 THEN <<Null, cleaned>>
        ELSE IF kvKey \notin DOMAIN cleaned THEN <<Null, cleaned>>
        ELSE IF Expired(cleaned[kvKey], t) THEN <<Null, kvDelete(cleaned, kvKey)>>
        ELSE <<cleaned[kvKey].chatHistoryId, cleaned>>

\* findExistingConversation: <<returned id or Null, store afterwards>>
findExistingConversation(store, messages, model, t) ==
    LET cleaned    == cleanupExpiredConversations(store, t)
        normalized == normalizeMessages(messages)
        lui        == lastUserIndex(normalized)
        historyBeforeUser == SubSeq(normalized, 1, lui - 1)
        kvKey      == kvKeyOf(historyBeforeUser)
    IN  IF lui = 0 THEN <<Null, cleaned>>
        ELSE IF kvKey \notin DOMAIN cleaned THEN <<Null, cleaned>>
        ELSE IF Expired(cleaned[kvKey], t) THEN <<Null, kvDelete(cleaned, kvKey)>>
        ELSE IF cleaned[kvKey].model # model THEN <<Null, cleaned>>
        ELSE <<cleaned[kvKey].chatHistoryId, cleaned>>

\* mutant: the key is derived from the history before its last user message,
\* as the lookup does
registerUnderLookupKey(store, messages, model, chatHistoryId, t) ==
    LET normalized == normalizeMessages(messages)
        lui        == lastUserIndex(normalized)
    IN  kvSet(store,
              kvKeyOf(SubSeq(normalized, 1, lui - 1)),
              [chatHistoryId |-> chatHistoryId, model |-> model, lastUpdated |-> t])

\* registerConversation: the store afterwards
registerConversation(store, messages, model, chatHistoryId, t) ==
    kvSet(store,
          kvKeyOf(normalizeMessages(messages)),
          [chatHistoryId |-> chatHistoryId, model |-> model, lastUpdated |-> t])

\* registered histories open with a user turn
Histories == {h \in SeqsUpTo(RawMessages, MaxHist) : h = <<>> \/ h[1].role = "user"}
LookupLists == SeqsUpTo(RawMessages, MaxHist + 1)

\* the clock advances by one TTL, then by one millisecond, in turn, so that a
\* record is seen 0 ms, 1 ms, exactly one TTL and more than one TTL after its
\* last update
TickCount == (now \div CONVERSATION_TTL_MS) + (now % CONVERSATION_TTL_MS)
TickStep == IF TickCount % 2 = 0 THEN CONVERSATION_TTL_MS ELSE 1

\* what a lookup is asked about: the well-formed messages strictly before the
\* last well-formed user message (NoUser when there is no user message)
NoUser == <<[role |-> "none", content |-> <<>>]>>
PrefixBeforeLastUser(messages) ==
    LET n == normalizeMessages(messages)
    IN  IF \A i \in 1..Len(n) : n[i].role # "user" THEN NoUser
        ELSE SubSeq(n, 1, lastUserIndex(n) - 1)

ConvInit ==
    /\ kv = <<>>
    /\ now = 0
    /\ lastReg = None
    /\ lastLookup = None

\* crypto.randomUUID(): the n-th value drawn
UuidNames == <<"u1", "u2", "u3", "u4", "u5", "u6", "u7", "u8">>
randomUUID(n) == UuidNames[n]

Clients == {"k1", "k2"}

\* a client that has sent nothing yet
IdleRequest ==
    [pc |-> "idle", n |-> 0, messages |-> <<>>, model |-> "ClaudeSonnet4_5",
     stream |-> FALSE, chatHistoryId |-> Null, status |-> 0, reply |-> <<>>,
     doneAt |-> 0, after |-> None, auth |-> Null, usedCookieId |-> Null,
     defect |-> Null, failed |-> FALSE]

\* no chat-completions request has been received
PoolIdle ==
    /\ cookies = <<>>
    /\ picked = None

FormsIdle ==
    /\ fEvents = <<>>
    /\ fDuring = 0
    /\ fStream = None
    /\ fAggregate = None

OrchIdle ==
    /\ reqs = [c \in Clients |-> IdleRequest]
    /\ uuids = 0
    /\ stats = [total |-> 0, success |-> 0]

\* no iterator
IterIdle ==
    /\ queue = <<>>
    /\ resolver = Null
    /\ itPc = "idle"
    /\ yielded = <<>>
    /\ arrived = <<>>

\* no service call in progress
TasksIdle == tasks = <<>>

\* no relay invocation
RelayIdle ==
    /\ form = "stream"
    /\ pc = "idle"
    /\ trigger = "none"
    /\ wsClosed = FALSE
    /\ closedAt = -1
    /\ receivedUpdate = FALSE
    /\ lastBufferType = Null
    /\ inThinkingBlock = FALSE
    /\ modeByType = [t \in {"chat", "thinking"} |-> "unset"]
    /\ prevContentByType = [t \in {"chat", "thinking"} |-> <<>>]
    /\ emitted = <<>>
    /\ nEvents = 0
    /\ unheard = <<>>
    /\ ignoredLast = FALSE
    /\ seen = [t \in {"chat", "thinking"} |-> <<>>]

Tick ==
    /\ TickCount < MaxTicks
    /\ now' = now + TickStep
    /\ lastLookup' = None
    /\ UNCHANGED <<kv, lastReg, relayVars, orchVars, formsVars, poolVars, iterVars, taskVars>>

Register ==
    \E messages \in Histories, model \in Models, id \in ChatIds :
        /\ kv' = registerConversation(kv, messages, model, id, now)
        /\ lastReg' = [op |-> "register", hist |-> normalizeMessages(messages),
                       model |-> model, id |-> id, at |-> now, alone |-> (kv = <<>>)]
        /\ lastLookup' = None
        /\ UNCHANGED <<now, relayVars, orchVars, formsVars, poolVars, iterVars, taskVars>>

Lookup ==
    \E messages \in LookupLists, model \in Models :
        LET r == findExistingConversation(kv, messages, model, now)
        IN  /\ kv' = r[2]
            /\ lastLookup' = [op |-> "lookup", hist |-> PrefixBeforeLastUser(messages),
                              model |-> model, ret |-> r[1],
                              stale |-> {k \in DOMAIN kv :
                                           now - kv[k].lastUpdated > CONVERSATION_TTL_MS}]
            /\ UNCHANGED <<now, lastReg, relayVars, orchVars, formsVars, poolVars, iterVars, taskVars>>

\* Deno KV's own expiry of an entry written with {expireIn: CONVERSATION_TTL_MS}
KvExpire ==
    \E k \in DOMAIN kv :
        /\ now - kv[k].lastUpdated >= CONVERSATION_TTL_MS
        /\ kv' = kvDelete(kv, k)
        /\ lastLookup' = None
        /\ UNCHANGED <<now, lastReg, relayVars, orchVars, formsVars, poolVars, iterVars, taskVars>>

ConvNext == Tick \/ Register \/ Lookup \/ KvExpire

InitConv == PoolIdle /\ ConvInit /\ RelayIdle /\ OrchIdle /\ IterIdle /\ TasksIdle /\ FormsIdle

SpecConv == InitConv /\ [][ConvNext]_vars

-----------------------------------------------------------------------------
(* Claims about the conversation correlator                                *)

JustLookedUp == lastLookup.op = "lookup"
LookedUpKey == kvKeyOf(lastLookup.hist)
\* the latest lookup asks about the history of the latest registration, with
\* the same model, and no registration was made in between
LookupOfLastReg ==
    /\ JustLookedUp
    /\ lastReg.op = "register"
    /\ lastLookup.hist = lastReg.hist
    /\ lastLookup.model = lastReg.model

\* C1: after registerConversation(H, M, id), a findExistingConversation call
\* made before the TTL has elapsed, with model M and a message list whose
\* messages before its last user message are H, returns id.
C1_RegisterThenLookupReturnsId ==
    (LookupOfLastReg /\ now - lastReg.at < CONVERSATION_TTL_MS)
        => lastLookup.ret = lastReg.id

C1_Witness ==
    /\ LookupOfLastReg
    /\ lastReg.hist # <<>>
    /\ now - lastReg.at > 0
    /\ now - lastReg.at < CONVERSATION_TTL_MS
    /\ lastLookup.ret = lastReg.id

\* C2: a findExistingConversation call made more than the TTL after a record's
\* lastUpdated returns absent for that record's key, and after the call the
\* record is no longer in the store.
C2_ExpiredRecordIsPurged ==
    JustLookedUp =>
        \A k \in lastLookup.stale :
            /\ k \notin DOMAIN kv
            /\ (lastLookup.hist # NoUser /\ LookedUpKey = k) => lastLookup.ret = Null

C2_Witness ==
    /\ JustLookedUp
    /\ lastLookup.hist # NoUser
    /\ LookedUpKey \in lastLookup.stale
    /\ Cardinality(lastLookup.stale) = 2
    /\ lastLookup.ret = Null
    /\ kv = <<>>

\* C37: a findExistingConversation call, whatever it returns, removes only
\* records older than the TTL, adds none, and leaves every other record (key,
\* conversation id, model, lastUpdated) as it was.
C37_LookupOnlyPurgesExpired ==
    [][ lastLookup'.op = "lookup" =>
          /\ DOMAIN kv' \subseteq DOMAIN kv
          /\ \A k \in DOMAIN kv :
                IF now - kv[k].lastUpdated > CONVERSATION_TTL_MS
                THEN k \notin DOMAIN kv'
                ELSE k \in DOMAIN kv' /\ kv'[k] = kv[k] ]_vars

\* a lookup for a prefix without a record purged an expired record and left a
\* live one in place
C37_Witness ==
    /\ JustLookedUp
    /\ lastLookup.stale # {}
    /\ lastLookup.ret = Null
    /\ \E k \in DOMAIN kv : now - kv[k].lastUpdated <= CONVERSATION_TTL_MS

\* C3: a lookup with a model different from the model stored in the record for
\* the derived key returns absent, even for an identical prefix; an id is only
\* returned for the model it is stored with.
C3_ModelMismatchIsAbsent ==
    (JustLookedUp /\ lastLookup.hist # NoUser) =>
        /\ (LookedUpKey \in DOMAIN kv /\ kv[LookedUpKey].model # lastLookup.model)
               => lastLookup.ret = Null
        /\ lastLookup.ret # Null
               => /\ LookedUpKey \in DOMAIN kv
                  /\ kv[LookedUpKey].model = lastLookup.model
                  /\ kv[LookedUpKey].chatHistoryId = lastLookup.ret

C3_Witness ==
    /\ JustLookedUp
    /\ lastReg.op = "register"
    /\ lastLookup.hist = lastReg.hist
    /\ lastLookup.model # lastReg.model
    /\ LookedUpKey \in DOMAIN kv
    /\ kv[LookedUpKey].model = lastReg.model
    /\ now - kv[LookedUpKey].lastUpdated < CONVERSATION_TTL_MS
    /\ lastLookup.ret = Null

\* C4: for two different normalized histories H1 and H2, after
\* registerConversation(H1, M, id) alone, a lookup whose prefix before the last
\* user message is H2 returns absent.
C4_OtherHistoryIsAbsent ==
    ( /\ JustLookedUp
      /\ lastReg.op = "register"
      /\ lastReg.alone
      /\ lastLookup.hist # NoUser
      /\ lastLookup.hist # lastReg.hist )
        => lastLookup.ret = Null

-----------------------------------------------------------------------------
(* Upstream relay: streamChatGenerator and nonStreamChat, src/unnamed/part_002 *)

BufferTypes == {"chat", "thinking"}
Chars == {"a", "b"}
\* the non-empty contents an update can carry
UpdateContents == SeqsUpTo(Chars, MaxLen) \ {<<>>}

OpenMarker == <<"<", "t", "h", "i", "n", "k", ">">>
CloseMarker == <<"<", "/", "t", "h", "i", "n", "k", ">">>
\* stands for the text of `错误: ${e}`
ErrorText == <<"e", "r", "r", "o", "r">>

\* An inbound WebSocket message, after the two JSON.parse calls:
\*   kind "garbage"  the envelope is not JSON
\*   kind "other"    data.type is neither "update" nor "state"
\*   kind "update"   buffer "garbage" (not JSON), "other" (bufferData.type is
\*                   neither chat nor thinking), or a buffer type with its
\*                   chat.content (<<>> when empty or missing)
\*   kind "state"    with state.inProgress
Msg(kind, buffer, content, inProgress) ==
    [kind |-> kind, buffer |-> buffer, content |-> content, inProgress |-> inProgress]
Messages ==
    {Msg("garbage", Null, <<>>, FALSE), Msg("other", Null, <<>>, FALSE),
     Msg("update", "garbage", <<>>, FALSE), Msg("update", "other", <<>>, FALSE)}
      \cup {Msg("update", t, c, FALSE) : t \in BufferTypes, c \in UpdateContents \cup {<<>>}}
      \cup {Msg("state", Null, <<>>, b) : b \in BOOLEAN}
\* what wsMessageIterator yields
ChannelEvents ==
    {[type |-> "message", data |-> m] : m \in Messages}
      \cup {[type |-> "close", data |-> Msg("none", Null, <<>>, FALSE)],
            [type |-> "error", data |-> Msg("none", Null, <<>>, FALSE)]}

\* one yielded SSE chunk / one piece appended to fullContent; src records where
\* it was produced
Piece(src, content, finish) == [src |-> src, content |-> content, finish |-> finish]
DoneRecord == Piece("done", <<>>, Null)

\* mutant: the opening marker is only emitted for the first buffer type seen
markersOnlyAtStart(bufferType, last, inBlock) ==
    IF bufferType = last THEN <<>>
    ELSE (IF inBlock THEN <<Piece("close", CloseMarker, Null)>> ELSE <<>>)
           \o (IF bufferType = "thinking" /\ last = Null
               THEN <<Piece("open", OpenMarker, Null)>> ELSE <<>>)

\* the markers emitted when an update of bufferType arrives (lines 207-225)
switchMarkers(bufferType, last, inBlock) ==
    IF bufferType = last THEN <<>>
    ELSE (IF inBlock THEN <<Piece("close", CloseMarker, Null)>> ELSE <<>>)
           \o (IF bufferType = "thinking" THEN <<Piece("open", OpenMarker, Null)>> ELSE <<>>)

blockAfterSwitch(bufferType, last, inBlock) ==
    IF bufferType = last THEN inBlock ELSE bufferType = "thinking"

\* mutant: the mode is decided again on every update
decideModeEveryTime(mode, prev, content) ==
    IF prev # <<>>
    THEN (IF startsWith(content, prev) THEN "snapshot" ELSE "delta")
    ELSE mode

\* mutant: any second content fixes the mode to snapshot
decideModeAlwaysSnapshot(mode, prev, content) ==
    IF mode = "unset" /\ prev # <<>> THEN "snapshot" ELSE mode

\* mutant: the mode is decided at the first content already
decideModeAtFirst(mode, prev, content) ==
    IF mode = "unset"
    THEN (IF startsWith(content, prev) THEN "snapshot" ELSE "delta")
    ELSE mode

\* lines 229-239: the mode after looking at this content
decideMode(mode, prev, content) ==
    IF mode = "unset" /\ prev # <<>>
    THEN (IF startsWith(content, prev) THEN "snapshot" ELSE "delta")
    ELSE mode

\* mutant: a snapshot is forwarded whole
deltaWholeSnapshot(mode, prev, content) == content

\* mutant: a snapshot equal to the baseline is sent again
deltaResendsEqual(mode, prev, content) ==
    IF mode = "snapshot"
    THEN (IF prev = content THEN content
          ELSE IF Len(prev) >= Len(content) THEN <<>> ELSE sliceFrom(content, Len(prev)))
    ELSE content

\* lines 240-250: the text to emit
deltaOf(mode, prev, content) ==
    IF mode = "snapshot"
    THEN (IF Len(prev) >= Len(content) THEN <<>> ELSE sliceFrom(content, Len(prev)))
    ELSE content

\* mutant: the first content is not kept as the baseline
baselineNotAtFirst(mode, prev, content) ==
    IF mode = "delta" THEN prev \o content
    ELSE IF mode = "snapshot" THEN content ELSE prev

\* lines 240-250: the new prevContentByType[bufferType]
baselineOf(mode, prev, content) ==
    IF mode = "delta" THEN prev \o content ELSE content

\* lines 251-253: the content chunk for this update, if any
contentPieces(bufferType, content) ==
    LET prev  == prevContentByType[bufferType]
        mode  == decideMode(modeByType[bufferType], prev, content)
        delta == deltaOf(mode, prev, content)
    IN  IF delta # <<>> THEN <<Piece(bufferType, delta, Null)>> ELSE <<>>

\* mutant: the last chunk carries no finish_reason
finishWithoutReason(pieces) ==
    /\ wsClosed' = TRUE
    /\ closedAt' = Len(emitted \o pieces)
    /\ pc' = "done"
    /\ emitted' = emitted \o pieces
                    \o (IF form = "stream"
                        THEN <<Piece("finish", <<>>, Null), DoneRecord>> ELSE <<>>)

\* mutant: the channel is closed before the closing marker goes out
finishClosesFirst(pieces) ==
    /\ wsClosed' = TRUE
    /\ closedAt' = Len(emitted)
    /\ pc' = "done"
    /\ emitted' = emitted \o pieces
                    \o (IF form = "stream"
                        THEN <<Piece("finish", <<>>, "stop"), DoneRecord>> ELSE <<>>)

\* ws.close() and what follows the loop (lines 277-281 / 444-445)
Finish(pieces) ==
    /\ wsClosed' = TRUE
    /\ closedAt' = Len(emitted \o pieces)
    /\ pc' = "done"
    /\ emitted' = emitted \o pieces
                    \o (IF form = "stream"
                        THEN <<Piece("finish", <<>>, "stop"), DoneRecord>> ELSE <<>>)

\* the catch block (lines 282-288 / 446-449)
Fail ==
    /\ pc' = "failed"
    /\ emitted' = (IF form = "stream"
                   THEN emitted \o <<Piece("error", ErrorText, "stop"), DoneRecord>>
                   ELSE emitted)

RelayInit ==
    /\ form \in {"stream", "aggregate"}
    /\ pc = "connecting"
    /\ trigger = "none"
    /\ wsClosed = FALSE
    /\ closedAt = -1
    /\ receivedUpdate = FALSE
    /\ lastBufferType = Null
    /\ inThinkingBlock = FALSE
    /\ modeByType = [t \in BufferTypes |-> "unset"]
    /\ prevContentByType = [t \in BufferTypes |-> <<>>]
    /\ emitted = (IF form = "stream" THEN <<Piece("initial", <<>>, Null)>> ELSE <<>>)
    /\ nEvents = 0
    /\ unheard = <<>>
    /\ ignoredLast = FALSE
    /\ seen = [t \in BufferTypes |-> <<>>]

\* the channel has closed or errored while nothing listened: no event follows
ChannelEnded == unheard # <<>> /\ unheard[Len(unheard)] \in {"close", "error"}

loopVars == <<ignoredLast, receivedUpdate, lastBufferType, inThinkingBlock, modeByType, prevContentByType, seen>>

\* ws.onopen: the stream form starts the trigger and enters the loop, the
\* aggregate form awaits the trigger first
WsOpened ==
    /\ pc = "connecting"
    /\ pc' = (IF form = "stream" THEN "loop" ELSE "trigger")
    /\ trigger' = "pending"
    /\ UNCHANGED <<form, unheard, wsClosed, closedAt, emitted, nEvents, loopVars, convVars, orchVars, formsVars, poolVars, iterVars, taskVars>>

\* ws.onerror before the channel opened: the open promise rejects
WsOpenFailed ==
    /\ pc = "connecting"
    /\ Fail
    /\ UNCHANGED <<form, unheard, trigger, wsClosed, closedAt, nEvents, loopVars, convVars, orchVars, formsVars, poolVars, iterVars, taskVars>>

\* the fetch of POST /engine-agent/chat settles: "ok", "status" (non-2xx) or
\* "throw" (network error)
TriggerSettles ==
    /\ trigger = "pending"
    /\ \E r \in {"ok", "status", "throw"} :
        /\ trigger' = r
        /\ IF form = "aggregate"
           THEN /\ pc = "trigger"
                /\ IF r = "throw" THEN Fail ELSE pc' = "loop" /\ UNCHANGED emitted
           ELSE UNCHANGED <<pc, emitted>>
    /\ UNCHANGED <<form, unheard, wsClosed, closedAt, nEvents, loopVars, convVars, orchVars, formsVars, poolVars, iterVars, taskVars>>

\* the loop body for a "close" or "error" event: break
OnCloseOrError ==
    /\ pc = "loop"
    /\ ~ChannelEnded
    /\ nEvents < MaxEvents
    /\ \E e \in {x \in ChannelEvents : x.type \in {"close", "error"}} :
        /\ nEvents' = nEvents + 1
        /\ Finish(<<>>)
    /\ UNCHANGED <<form, unheard, trigger, loopVars, convVars, orchVars, formsVars, poolVars, iterVars, taskVars>>

\* the loop body for an update that carries content of a known buffer type
OnContent ==
    /\ pc = "loop"
    /\ ~ChannelEnded
    /\ nEvents < MaxEvents
    /\ \E bufferType \in BufferTypes, content \in UpdateContents :
        LET prev == prevContentByType[bufferType]
            mode == decideMode(modeByType[bufferType], prev, content)
        IN  /\ receivedUpdate' = TRUE
            /\ emitted' = emitted
                 \o switchMarkers(bufferType, lastBufferType, inThinkingBlock)
                 \o contentPieces(bufferType, content)
            /\ inThinkingBlock' = blockAfterSwitch(bufferType, lastBufferType, inThinkingBlock)
            /\ lastBufferType' = bufferType
            /\ modeByType' = [modeByType EXCEPT ![bufferType] = mode]
            /\ prevContentByType' =
                 [prevContentByType EXCEPT ![bufferType] = baselineOf(mode, prev, content)]
            /\ seen' = [seen EXCEPT ![bufferType] = Append(@, content)]
    /\ ignoredLast' = FALSE
    /\ nEvents' = nEvents + 1
    /\ UNCHANGED <<form, unheard, pc, trigger, wsClosed, closedAt, convVars, orchVars, formsVars, poolVars, iterVars, taskVars>>

\* the messages that carry no content of a known buffer type: an update
\* without usable content, a state envelope, an unknown type, an unparseable
\* envelope
OtherMessages ==
    {x \in Messages : ~(x.kind = "update" /\ x.buffer \in BufferTypes /\ x.content # <<>>)}

\* mutant: an idle state envelope ends the loop even before any update
processOtherAnyIdle(m) ==
    /\ receivedUpdate' = (receivedUpdate \/ m.kind = "update")
    /\ IF m.kind = "state" /\ ~m.inProgress
       THEN /\ Finish(IF inThinkingBlock
                      THEN <<Piece("close", CloseMarker, Null)>> ELSE <<>>)
            /\ inThinkingBlock' = FALSE
       ELSE UNCHANGED <<pc, wsClosed, closedAt, emitted, inThinkingBlock>>
    /\ nEvents' = nEvents + 1
    /\ ignoredLast' = (m.kind \in {"garbage", "other"})
    /\ UNCHANGED <<form, unheard, trigger, lastBufferType, modeByType, prevContentByType,
                   seen, convVars, orchVars, formsVars, poolVars, iterVars, taskVars>>

\* mutant: an unparseable envelope counts as an update
processOtherCountsNoise(m) ==
    /\ receivedUpdate' = (receivedUpdate \/ m.kind \in {"update", "garbage"})
    /\ IF m.kind = "state" /\ ~m.inProgress /\ receivedUpdate
       THEN /\ Finish(IF inThinkingBlock
                      THEN <<Piece("close", CloseMarker, Null)>> ELSE <<>>)
            /\ inThinkingBlock' = FALSE
       ELSE UNCHANGED <<pc, wsClosed, closedAt, emitted, inThinkingBlock>>
    /\ nEvents' = nEvents + 1
    /\ ignoredLast' = (m.kind \in {"garbage", "other"})
    /\ UNCHANGED <<form, unheard, trigger, lastBufferType, modeByType, prevContentByType,
                   seen, convVars, orchVars, formsVars, poolVars, iterVars, taskVars>>

\* the loop body for one such message m
ProcessOther(m) ==
    /\ receivedUpdate' = (receivedUpdate \/ m.kind = "update")
    /\ IF m.kind = "state" /\ ~m.inProgress /\ receivedUpdate
       THEN /\ Finish(IF inThinkingBlock
                      THEN <<Piece("close", CloseMarker, Null)>> ELSE <<>>)
            /\ inThinkingBlock' = FALSE
       ELSE UNCHANGED <<pc, wsClosed, closedAt, emitted, inThinkingBlock>>
    /\ nEvents' = nEvents + 1
    /\ ignoredLast' = (m.kind \in {"garbage", "other"})
    /\ UNCHANGED <<form, unheard, trigger, lastBufferType, modeByType, prevContentByType,
                   seen, convVars, orchVars, formsVars, poolVars, iterVars, taskVars>>

OnOtherMessage ==
    /\ pc = "loop"
    /\ ~ChannelEnded
    /\ nEvents < MaxEvents
    /\ \E m \in OtherMessages : ProcessOther(m)

\* nonStreamChat awaits the trigger call before wsMessageIterator installs
\* ws.onmessage / onclose / onerror (lines 332-346): an event the channel
\* delivers in between reaches no handler
EventUnheard ==
    /\ pc = "trigger"
    /\ ~ChannelEnded
    /\ nEvents < MaxEvents
    /\ \E e \in ChannelEvents : unheard' = Append(unheard, e.type)
    /\ nEvents' = nEvents + 1
    /\ UNCHANGED <<form, pc, trigger, wsClosed, closedAt, emitted, loopVars, convVars, orchVars, formsVars, poolVars, iterVars, taskVars>>

RelayNext ==
    WsOpened \/ WsOpenFailed \/ TriggerSettles \/ EventUnheard
      \/ OnCloseOrError \/ OnContent \/ OnOtherMessage

InitRelay == PoolIdle /\ ConvInit /\ RelayInit /\ OrchIdle /\ IterIdle /\ TasksIdle /\ FormsIdle

SpecRelay == InitRelay /\ [][RelayNext]_vars

-----------------------------------------------------------------------------
(* Claims about the relay                                                  *)

\* the content deltas emitted for one buffer type, in order
DeltaTexts(t) ==
    LET ps == SelectSeq(emitted, LAMBDA p : p.src = t)
    IN  [i \in 1..Len(ps) |-> ps[i].content]

LastOf(cs) == cs[Len(cs)]
IsSnapshotChain(cs) == \A i \in 2..Len(cs) : startsWith(cs[i], cs[i - 1])
CountOf(src) == Len(SelectSeq(emitted, LAMBDA p : p.src = src))
\* open brackets before position i of the output
DepthBefore(i) ==
    Len(SelectSeq(SubSeq(emitted, 1, i - 1), LAMBDA p : p.src = "open"))
      - Len(SelectSeq(SubSeq(emitted, 1, i - 1), LAMBDA p : p.src = "close"))

\* C6: when the non-empty contents c1..cn received on one channel each extend
\* the previous one as a prefix, the deltas emitted for that channel
\* concatenate to exactly cn.
C6_SnapshotsConcatToLast ==
    \A t \in BufferTypes :
        (seen[t] # <<>> /\ IsSnapshotChain(seen[t]))
            => Concat(DeltaTexts(t)) = LastOf(seen[t])

C6_Witness ==
    \E t \in BufferTypes :
        /\ Len(seen[t]) = 3
        /\ IsSnapshotChain(seen[t])
        /\ Len(seen[t][1]) = 1 /\ Len(seen[t][2]) = 2 /\ Len(seen[t][3]) = 3
        /\ modeByType[t] = "snapshot"
        /\ Len(DeltaTexts(t)) = 3
        /\ Concat(DeltaTexts(t)) = seen[t][3]

\* C7: when the second content received on a channel does not start with the
\* first (delta mode), every increment c1..cn is emitted verbatim, in order,
\* and the emitted deltas concatenate to c1+...+cn.
C7_DeltaIncrementsVerbatim ==
    \A t \in BufferTypes :
        (Len(seen[t]) >= 2 /\ ~startsWith(seen[t][2], seen[t][1]))
            => /\ DeltaTexts(t) = seen[t]
               /\ Concat(DeltaTexts(t)) = Concat(seen[t])

C7_Witness ==
    \E t \in BufferTypes :
        /\ Len(seen[t]) = 3
        /\ ~startsWith(seen[t][2], seen[t][1])
        /\ startsWith(seen[t][3], seen[t][1] \o seen[t][2])
        /\ modeByType[t] = "delta"
        /\ DeltaTexts(t) = seen[t]

\* the mode a channel must have, given only the contents it received
ModeFromHistory(cs) ==
    IF Len(cs) < 2 THEN "unset"
    ELSE IF startsWith(cs[2], cs[1]) THEN "snapshot" ELSE "delta"

\* C8: once the reconciliation mode of a channel is set it keeps that value for
\* the rest of the invocation, and each channel's mode depends on that
\* channel's contents only.
C8_ModeNeverChanges ==
    /\ [][\A t \in BufferTypes :
            modeByType[t] # "unset" => modeByType'[t] = modeByType[t]]_vars
    /\ [](\A t \in BufferTypes : modeByType[t] = ModeFromHistory(seen[t]))

C8_WitnessBothChannels ==
    /\ modeByType["chat"] = "snapshot"
    /\ modeByType["thinking"] = "delta"
    /\ Len(seen["chat"]) = 2
    /\ Len(seen["thinking"]) = 2
    /\ lastBufferType = "chat"

C8_Witness ==
    /\ modeByType["chat"] = "snapshot"
    /\ Len(seen["chat"]) = 4
    /\ ~startsWith(seen["chat"][3], seen["chat"][2])
    /\ startsWith(seen["chat"][4], seen["chat"][3])

\* C9: however the invocation ends, the output holds as many closing markers
\* as opening markers, and no closing marker precedes its opening marker.
C9_MarkersBalanced ==
    /\ \A i \in 1..(Len(emitted) + 1) : DepthBefore(i) >= 0
    /\ pc \in {"done", "failed"} => CountOf("open") = CountOf("close")

\* C10: every thinking delta is emitted inside an open bracket, every chat
\* delta outside any bracket.
C10_DeltasInsideTheirBracket ==
    \A i \in 1..Len(emitted) :
        /\ emitted[i].src = "thinking" => DepthBefore(i) = 1
        /\ emitted[i].src = "chat" => DepthBefore(i) = 0

C10_Witness ==
    /\ Len(emitted) >= 4
    /\ \E i, j, k \in 1..Len(emitted) :
        /\ i < j /\ j < k
        /\ emitted[i].src = "thinking"
        /\ emitted[j].src = "chat"
        /\ emitted[k].src = "thinking"

\* C15: every message, close or error event the channel delivers after it
\* opened is processed by the consumption loop, in both forms, also while the
\* trigger request is outstanding: no event is delivered unheard.
C15_NoEventDropped == unheard = <<>>

\* the caller waits for a completion signal
Waiting == pc \in {"connecting", "trigger", "loop"}

\* The channel eventually opens or errors, the trigger request eventually
\* settles, and a loop that listens eventually sees the channel close.
RelayFairness ==
    /\ WF_vars(WsOpened \/ WsOpenFailed)
    /\ WF_vars(TriggerSettles)
    /\ WF_vars(OnCloseOrError)

SpecRelayLive == InitRelay /\ [][RelayNext]_vars /\ RelayFairness

\* C11: every relay invocation reaches a terminal point where the caller has
\* its completion signal, whatever the channel delivers and whenever it
\* closes or errors (within the budget of MaxEvents events).
C11_RelayTerminates == <>(~Waiting \/ nEvents = MaxEvents)

\* C12: in streaming form the output ends with exactly one record whose
\* finish_reason is set, followed at once by exactly one [DONE] record; every
\* record before has no finish_reason and nothing follows [DONE].
C12_StreamEndsWithFinishThenDone ==
    form = "stream" =>
      /\ \A i \in 1..Len(emitted) :
            /\ emitted[i].src = "done" => i = Len(emitted)
            /\ emitted[i].finish # Null =>
                  i = Len(emitted) - 1 /\ emitted[Len(emitted)] = DoneRecord
      /\ ~Waiting =>
            /\ Len(emitted) >= 2
            /\ emitted[Len(emitted)] = DoneRecord
            /\ emitted[Len(emitted) - 1].finish # Null

C12_Witness ==
    /\ form = "stream"
    /\ pc = "done"
    /\ CountOf("chat") >= 1
    /\ CountOf("close") >= 1

StateEnvelopes == {m \in Messages : m.kind = "state"}

\* C13: a state envelope ends the relay exactly when it says inProgress =
\* false and an update envelope was observed before; so one that comes before
\* any update, or says inProgress = true, never ends it.  Once the relay has
\* ended, nothing more is emitted.
C13_StateEndsOnlyAfterUpdate ==
    [][ /\ \A m \in StateEnvelopes :
            (pc = "loop" /\ ProcessOther(m)) =>
                ((pc' = "done") <=> (~m.inProgress /\ receivedUpdate))
        /\ ~Waiting => emitted' = emitted /\ pc' = pc ]_vars

\* the relay was ended by a state envelope while a thinking block was open
C13_Witness ==
    /\ pc = "done"
    /\ receivedUpdate
    /\ lastBufferType = "thinking"
    /\ ~inThinkingBlock

\* C14: a failed trigger call, be it a network exception or a non-success
\* status, does not end the relay in either form.
C14_TriggerFailureNotFatal ==
    trigger \in {"status", "throw"} => pc # "failed"

\* C16: when the channel fails to open, errors, or closes before a
\* terminating state envelope, the streaming relay ends with a delta that
\* carries a diagnostic message.
C16_ChannelFailureIsReported ==
    [][ (form = "stream" /\ (WsOpenFailed \/ OnCloseOrError)) =>
            \E i \in 1..Len(emitted') : emitted'[i].src = "error" ]_vars

\* the envelopes that do not parse or whose type is neither update nor state
Noise == {m \in Messages : m.kind \in {"garbage", "other"}}

\* C17: a message that is not JSON, or whose type is neither "update" nor
\* "state", emits nothing and leaves the update-seen flag, the active channel,
\* the bracket flag and every channel's mode and baseline as they were; the
\* relay stays in its loop.
C17_NoiseIsIgnored ==
    [][ \A m \in Noise :
          (pc = "loop" /\ ProcessOther(m)) =>
              /\ UNCHANGED <<emitted, receivedUpdate, lastBufferType, inThinkingBlock,
                             modeByType, prevContentByType>>
              /\ pc' = "loop" ]_vars

\* noise was handled after updates, inside a bracket with a decided mode
C17_Witness ==
    /\ ignoredLast
    /\ pc = "loop"
    /\ receivedUpdate
    /\ inThinkingBlock
    /\ modeByType["thinking"] = "snapshot"

\* C27: the first non-empty content of a channel is emitted verbatim as one
\* delta, is that channel's baseline, and leaves its mode unset.
C27_FirstContentVerbatim ==
    \A t \in BufferTypes :
        Len(seen[t]) = 1 =>
            /\ DeltaTexts(t) = <<seen[t][1]>>
            /\ prevContentByType[t] = seen[t][1]
            /\ modeByType[t] = "unset"

\* both channels have had their first content, the thinking one first
C27_Witness ==
    /\ Len(seen["thinking"]) = 1
    /\ Len(seen["chat"]) = 1
    /\ lastBufferType = "chat"
    /\ Len(seen["chat"][1]) = MaxLen

\* C28: a channel's mode is decided at its second non-empty content and at no
\* other moment: snapshot if and only if that content starts with the
\* baseline, delta otherwise; the step leaves the other channel's mode alone.
C28_ModeDecidedAtSecondContent ==
    [][ \A t \in BufferTypes :
          /\ (modeByType[t] = "unset" /\ modeByType'[t] # "unset") =>
                /\ Len(seen[t]) = 1 /\ Len(seen'[t]) = 2
                /\ (modeByType'[t] = "snapshot")
                      <=> startsWith(seen'[t][2], prevContentByType[t])
                /\ (modeByType'[t] = "delta")
                      <=> ~startsWith(seen'[t][2], prevContentByType[t])
                /\ \A u \in BufferTypes \ {t} : modeByType'[u] = modeByType[u]
          /\ Len(seen'[t]) >= 2 => modeByType'[t] # "unset" ]_vars

\* the two channels were decided differently, chat while thinking was decided
C28_Witness ==
    /\ modeByType["thinking"] = "snapshot"
    /\ modeByType["chat"] = "delta"
    /\ Len(seen["thinking"]) = 2
    /\ Len(seen["chat"]) = 2
    /\ lastBufferType = "chat"

\* C30: in snapshot mode a content equal to the channel's baseline emits no
\* delta for that channel and leaves the baseline as it was.
C30_EqualSnapshotEmitsNothing ==
    [][ \A t \in BufferTypes :
          ( /\ seen'[t] = Append(seen[t], prevContentByType[t])
            /\ modeByType'[t] = "snapshot" )
            => /\ DeltaTexts(t)' = DeltaTexts(t)
               /\ prevContentByType'[t] = prevContentByType[t] ]_vars

\* the same snapshot was delivered three times
C30_Witness ==
    /\ Len(seen["chat"]) = 3
    /\ seen["chat"][1] = seen["chat"][2]
    /\ seen["chat"][2] = seen["chat"][3]
    /\ modeByType["chat"] = "snapshot"

\* C29: in streaming form nothing but the finish record and [DONE] is emitted
\* once the channel has been closed, the finish record comes right after the
\* close, and when a terminating state envelope found a thinking bracket open
\* the closing marker is the last record before the close.
C29_DrainingOrder ==
    form = "stream" =>
      /\ closedAt >= 0 =>
            /\ closedAt = Len(emitted) - 2
            /\ emitted[closedAt + 1].src = "finish"
            /\ \A i \in (closedAt + 1)..Len(emitted) : emitted[i].src \in {"finish", "done"}
      /\ pc = "done" => closedAt >= 0
      /\ (pc = "done" /\ lastBufferType = "thinking" /\ ~inThinkingBlock) =>
            emitted[closedAt].src = "close"

\* thinking followed chat and was still open when the terminating envelope came
C29_Witness ==
    /\ form = "stream"
    /\ pc = "done"
    /\ lastBufferType = "thinking"
    /\ ~inThinkingBlock
    /\ CountOf("chat") >= 1
    /\ closedAt = Len(emitted) - 2
    /\ emitted[closedAt].src = "close"

\* C31: at every point of a relay and for each buffer type, the stored
\* baseline equals the concatenation, in order, of the content deltas emitted
\* so far for that buffer type, whatever contents arrive.
C31_BaselineIsConcatOfDeltas ==
    \A t \in BufferTypes : prevContentByType[t] = Concat(DeltaTexts(t))

\* C32: a state envelope with inProgress = false ends the relay only if an
\* update before it delivered content of a known buffer type; updates whose
\* buffer does not parse, has an unknown type or carries no content do not
\* enable termination.
C32_OnlyContentEnablesTermination ==
    [][ \A m \in StateEnvelopes :
          (pc = "loop" /\ ProcessOther(m) /\ pc' = "done") =>
              \E t \in BufferTypes : seen[t] # <<>> ]_vars

-----------------------------------------------------------------------------
(* The streaming relay when its consumer goes away.  The response body is    *)
(* wrappedGenerator (part_006:162-191) around streamChatGenerator; when the  *)
(* client disconnects the consumer calls return() on it.  A generator that   *)
(* is suspended at a yield returns there at once; one that is running takes  *)
(* the request at its next yield.  The try of streamChatGenerator has a      *)
(* catch and no finally, so nothing runs after that yield.                   *)
(*   pc = "gone"     the generator is running, the return request waits      *)
(*   pc = "stopped"  the generator has returned at a yield                   *)

RelayCancelInit ==
    /\ form = "stream"
    /\ pc = "connecting"
    /\ trigger = "none"
    /\ wsClosed = FALSE
    /\ closedAt = -1
    /\ receivedUpdate = FALSE
    /\ lastBufferType = Null
    /\ inThinkingBlock = FALSE
    /\ modeByType = [t \in BufferTypes |-> "unset"]
    /\ prevContentByType = [t \in BufferTypes |-> <<>>]
    /\ emitted = <<Piece("initial", <<>>, Null)>>
    /\ nEvents = MaxEvents - MaxCancelEvents
    /\ unheard = <<>>
    /\ ignoredLast = FALSE
    /\ seen = [t \in BufferTypes |-> <<>>]

\* the consumer calls return() while the relay is in its loop
ClientGone ==
    /\ form = "stream"
    /\ pc = "loop"
    /\ pc' \in {"gone", "stopped"}
    /\ UNCHANGED <<form, unheard, trigger, wsClosed, closedAt, emitted, nEvents, loopVars,
                   convVars, orchVars, formsVars, poolVars, iterVars, taskVars>>

\* an update with content: the loop body runs up to its first yield, if any
GoneOnContent ==
    /\ pc = "gone"
    /\ nEvents < MaxEvents
    /\ \E bufferType \in BufferTypes, content \in UpdateContents :
        LET prev   == prevContentByType[bufferType]
            mode   == decideMode(modeByType[bufferType], prev, content)
            pieces == switchMarkers(bufferType, lastBufferType, inThinkingBlock)
                        \o contentPieces(bufferType, content)
        IN  IF pieces = <<>>
            THEN /\ receivedUpdate' = TRUE
                 /\ inThinkingBlock' = blockAfterSwitch(bufferType, lastBufferType, inThinkingBlock)
                 /\ lastBufferType' = bufferType
                 /\ modeByType' = [modeByType EXCEPT ![bufferType] = mode]
                 /\ prevContentByType' =
                      [prevContentByType EXCEPT ![bufferType] = baselineOf(mode, prev, content)]
                 /\ seen' = [seen EXCEPT ![bufferType] = Append(@, content)]
                 /\ ignoredLast' = FALSE
                 /\ UNCHANGED <<pc, emitted>>
            ELSE /\ emitted' = Append(emitted, pieces[1])
                 /\ pc' = "stopped"
                 /\ UNCHANGED loopVars
    /\ nEvents' = nEvents + 1
    /\ UNCHANGED <<form, unheard, trigger, wsClosed, closedAt, convVars, orchVars, formsVars, poolVars, iterVars, taskVars>>

\* any other message: a terminating state envelope yields the closing marker
\* if a bracket is open, else the loop is left, the channel closed and the
\* finish chunk yielded
GoneOnOther ==
    /\ pc = "gone"
    /\ nEvents < MaxEvents
    /\ \E m \in OtherMessages :
        IF m.kind = "state" /\ ~m.inProgress /\ receivedUpdate
        THEN /\ pc' = "stopped"
             /\ IF inThinkingBlock
                THEN /\ emitted' = Append(emitted, Piece("close", CloseMarker, Null))
                     /\ UNCHANGED <<wsClosed, closedAt>>
                ELSE /\ wsClosed' = TRUE
                     /\ closedAt' = Len(emitted)
                     /\ emitted' = Append(emitted, Piece("finish", <<>>, "stop"))
             /\ UNCHANGED loopVars
        ELSE /\ receivedUpdate' = (receivedUpdate \/ m.kind = "update")
             /\ ignoredLast' = (m.kind \in {"garbage", "other"})
             /\ UNCHANGED <<pc, wsClosed, closedAt, emitted, lastBufferType, inThinkingBlock,
                            modeByType, prevContentByType, seen>>
    /\ nEvents' = nEvents + 1
    /\ UNCHANGED <<form, unheard, trigger, convVars, orchVars, formsVars, poolVars, iterVars, taskVars>>

\* close or error: the loop is left, the channel closed, the finish chunk
\* yielded
GoneOnCloseOrError ==
    /\ pc = "gone"
    /\ nEvents < MaxEvents
    /\ \E e \in {x \in ChannelEvents : x.type \in {"close", "error"}} :
        /\ wsClosed' = TRUE
        /\ closedAt' = Len(emitted)
        /\ emitted' = Append(emitted, Piece("finish", <<>>, "stop"))
        /\ pc' = "stopped"
    /\ nEvents' = nEvents + 1
    /\ UNCHANGED <<form, unheard, trigger, loopVars, convVars, orchVars, formsVars, poolVars, iterVars, taskVars>>

RelayCancelNext ==
    WsOpened \/ WsOpenFailed \/ TriggerSettles
      \/ OnCloseOrError \/ OnContent \/ OnOtherMessage
      \/ ClientGone \/ GoneOnContent \/ GoneOnOther \/ GoneOnCloseOrError

InitRelayCancel == PoolIdle /\ ConvInit /\ RelayCancelInit /\ OrchIdle /\ IterIdle /\ TasksIdle /\ FormsIdle

SpecRelayCancel == InitRelayCancel /\ [][RelayCancelNext]_vars

\* C23: when the client has gone and the generator has been stopped, the
\* upstream channel has been closed.
C23_CancelClosesChannel == pc = "stopped" => wsClosed

-----------------------------------------------------------------------------
(* Both forms of the relay as functions of the event sequence.  The loop    *)
(* bodies of streamChatGenerator (185-275) and nonStreamChat (346-442) are  *)
(* the same statements; one yields each delta, the other appends it to      *)
(* fullContent.                                                             *)

LoopStart ==
    [receivedUpdate |-> FALSE, lastBufferType |-> Null, inThinkingBlock |-> FALSE,
     modeByType |-> [t \in BufferTypes |-> "unset"],
     prevContentByType |-> [t \in BufferTypes |-> <<>>],
     out |-> <<>>, ended |-> FALSE]

\* the texts of a sequence of pieces
textsOf(pieces) == [i \in 1..Len(pieces) |-> pieces[i].content]

\* one turn of the loop body on event e
LoopStep(st, e) ==
    IF st.ended THEN st
    ELSE IF e.type \in {"close", "error"} THEN [st EXCEPT !.ended = TRUE]
    ELSE LET m == e.data IN
      IF m.kind = "update" /\ m.buffer \in BufferTypes /\ m.content # <<>>
      THEN LET t     == m.buffer
               prev  == st.prevContentByType[t]
               mode  == decideMode(st.modeByType[t], prev, m.content)
               delta == deltaOf(mode, prev, m.content)
           IN  [st EXCEPT
                  !.receivedUpdate = TRUE,
                  !.out = @ \o textsOf(switchMarkers(t, st.lastBufferType, st.inThinkingBlock))
                            \o (IF delta # <<>> THEN <<delta>> ELSE <<>>),
                  !.inThinkingBlock = blockAfterSwitch(t, st.lastBufferType, st.inThinkingBlock),
                  !.lastBufferType = t,
                  !.modeByType[t] = mode,
                  !.prevContentByType[t] = baselineOf(mode, prev, m.content)]
      ELSE IF m.kind = "update" THEN [st EXCEPT !.receivedUpdate = TRUE]
      ELSE IF m.kind = "state" /\ ~m.inProgress /\ st.receivedUpdate
      THEN [st EXCEPT !.out = @ \o (IF st.inThinkingBlock THEN <<CloseMarker>> ELSE <<>>),
                      !.inThinkingBlock = FALSE,
                      !.ended = TRUE]
      ELSE st

RECURSIVE LoopRun(_, _)
LoopRun(st, events) ==
    IF events = <<>> THEN st ELSE LoopRun(LoopStep(st, Head(events)), Tail(events))

\* streamChatGenerator listens from the moment the channel is open: the content
\* deltas it yields for the events, and whether it has finished
streamDeltas(events) ==
    LET st == LoopRun(LoopStart, events)
    IN  [kind |-> IF st.ended THEN "finished" ELSE "waiting", deltas |-> st.out]

\* nonStreamChat awaits the trigger call first: outcome r of the call, the
\* first `during` events arrive before it settles
aggregateOf(events, during, r) ==
    IF r = "throw" THEN [kind |-> "raised", text |-> <<>>]
    ELSE IF \E i \in 1..during : events[i].type \in {"close", "error"}
    THEN [kind |-> "waiting", text |-> <<>>]
    ELSE LET st == LoopRun(LoopStart, SubSeq(events, during + 1, Len(events)))
         IN  [kind |-> IF st.ended THEN "returned" ELSE "waiting",
              text |-> IF st.ended THEN Concat(st.out) ELSE <<>>]

\* what a channel can deliver: messages, then at most one close or error
EventSequences ==
    {es \in SeqsUpTo(ChannelEvents, MaxFormEvents) :
        \A i \in 1..(Len(es) - 1) : es[i].type = "message"}

FormsInit ==
    /\ fEvents \in EventSequences
    /\ fDuring \in 0..Len(fEvents)
    /\ fStream = None
    /\ fAggregate = None

RunStream ==
    /\ fStream = None
    /\ fStream' = streamDeltas(fEvents)
    /\ UNCHANGED <<fEvents, fDuring, fAggregate, convVars, relayVars, orchVars, poolVars, iterVars, taskVars>>

RunAggregate ==
    /\ fAggregate = None
    /\ \E r \in {"ok", "status", "throw"} :
          fAggregate' = aggregateOf(fEvents, fDuring, r)
    /\ UNCHANGED <<fEvents, fDuring, fStream, convVars, relayVars, orchVars, poolVars, iterVars, taskVars>>

FormsNext == RunStream \/ RunAggregate

InitForms == PoolIdle /\ ConvInit /\ RelayIdle /\ OrchIdle /\ IterIdle /\ TasksIdle /\ FormsInit

SpecForms == InitForms /\ [][FormsNext]_vars

\* C18: for every sequence of events delivered after the channel opened, the
\* string nonStreamChat returns is the concatenation, in order, of the content
\* deltas (markers included) streamChatGenerator emits for that sequence.
C18_AggregateIsConcatOfDeltas ==
    (fStream # None /\ fAggregate # None /\ fAggregate.kind = "returned")
        => fAggregate.text = Concat(fStream.deltas)

-----------------------------------------------------------------------------
(* Credential pool, src/src/services/cookie.ts *)

CookieIds == <<"c1", "c2", "c3", "c4", "c5", "c6">>
CookieData(id, status, requestCount) ==
    [id |-> id, status |-> status, requestCount |-> requestCount]

\* getAvailableCookie's null
NoCookie == [op |-> "null"]

\* kv.list({prefix: ["cookies"]}) yields the entries in key order
getAllCookies(store) == store

\* Array.prototype.sort is stable: c goes behind every element that does not
\* compare greater
RECURSIVE insertByCount(_, _)
insertByCount(sorted, c) ==
    IF sorted = <<>> THEN <<c>>
    ELSE IF Head(sorted).requestCount - c.requestCount <= 0
         THEN <<Head(sorted)>> \o insertByCount(Tail(sorted), c)
         ELSE <<c>> \o sorted

\* activeCookies.sort((a, b) => a.requestCount - b.requestCount)
RECURSIVE sortByRequestCount(_)
sortByRequestCount(cs) ==
    IF cs = <<>> THEN <<>>
    ELSE insertByCount(sortByRequestCount(SubSeq(cs, 1, Len(cs) - 1)), cs[Len(cs)])

\* mutant: the first active credential, whatever its count
firstActiveCookie(store) ==
    LET activeCookies == SelectSeq(getAllCookies(store), LAMBDA c : c.status = "active")
    IN  IF Len(activeCookies) = 0 THEN NoCookie ELSE activeCookies[1]

getAvailableCookie(store) ==
    LET activeCookies == SelectSeq(getAllCookies(store), LAMBDA c : c.status = "active")
    IN  IF Len(activeCookies) = 0 THEN NoCookie
        ELSE sortByRequestCount(activeCookies)[1]

\* requestCount++ on the stored credential, if it is still there
recordCookieUsage(store, id) ==
    [i \in 1..Len(store) |->
        IF store[i].id = id
        THEN [store[i] EXCEPT !.requestCount = @ + 1] ELSE store[i]]

\* the pools: the first n ids, each credential active or not, with any count
Pools ==
    UNION {{[i \in 1..n |-> CookieData(CookieIds[i], st[i], cnt[i])] :
               st \in [1..n -> {"active", "inactive"}], cnt \in [1..n -> 0..MaxCount]} :
           n \in 0..MaxCookies}

PoolInit ==
    /\ cookies \in Pools
    /\ picked = None

Select ==
    /\ picked = None
    /\ picked' = getAvailableCookie(cookies)
    /\ UNCHANGED <<cookies, convVars, relayVars, orchVars, formsVars, iterVars, taskVars>>

RecordUsage ==
    /\ picked \notin {None, NoCookie}
    /\ picked.requestCount < MaxCount
    /\ cookies' = recordCookieUsage(cookies, picked.id)
    /\ picked' = None
    /\ UNCHANGED <<convVars, relayVars, orchVars, formsVars, iterVars, taskVars>>

PoolNext == Select \/ RecordUsage

InitPool == PoolInit /\ ConvInit /\ RelayIdle /\ OrchIdle /\ IterIdle /\ TasksIdle /\ FormsIdle

SpecPool == InitPool /\ [][PoolNext]_vars

ActiveIn(store) == {i \in 1..Len(store) : store[i].status = "active"}

\* C19: getAvailableCookie returns nothing exactly when no credential is
\* active; otherwise it returns an active credential whose requestCount is
\* minimal among the active ones, and of those tied at the minimum the first
\* in key order, so the store contents determine the result.
C19_LeastUsedActiveIsPicked ==
    picked # None =>
      IF ActiveIn(cookies) = {} THEN picked = NoCookie
      ELSE \E i \in ActiveIn(cookies) :
             /\ picked = cookies[i]
             /\ \A j \in ActiveIn(cookies) :
                   /\ cookies[i].requestCount <= cookies[j].requestCount
                   /\ cookies[i].requestCount = cookies[j].requestCount => i <= j

\* counts [2, 0, 0], all active: the second credential is picked
C19_Witness ==
    /\ Len(cookies) = 3
    /\ ActiveIn(cookies) = {1, 2, 3}
    /\ cookies[1].requestCount = 2
    /\ cookies[2].requestCount = 0
    /\ cookies[3].requestCount = 0
    /\ picked = cookies[2]

-----------------------------------------------------------------------------
(* Request orchestrator: POST /v1/chat/completions, src/unnamed/part_006.   *)
(* The handler is cut where it waits for the relay: Receive runs it up to   *)
(* the start of the relay, Complete from the relay's end.                   *)

ChatMessage(role, content) == [role |-> role, content |-> content, isString |-> TRUE]

\* the request bodies of a first turn
FirstBodies ==
    [messages : {<<ChatMessage("user", <<"a">>)>>}, model : Models, stream : BOOLEAN]
      \cup [messages : {<<>>, <<ChatMessage("assistant", <<"a">>)>>},
            model : {"ClaudeSonnet4_5"}, stream : {FALSE}]

\* the body a client sends to go on with its last exchange: the messages it
\* sent, the reply it received, one new user message
FollowUpBodies(c) ==
    IF reqs[c].status = 200 /\ reqs[c].reply # <<>>
    THEN [messages : {reqs[c].messages
                        \o <<ChatMessage("assistant", reqs[c].reply),
                             ChatMessage("user", <<"b">>)>>},
          model : Models, stream : BOOLEAN]
    ELSE {}

\* lines 80-97: 400 for an empty list or no user message with content
validationStatus(messages) ==
    LET i == lastUserIndex(messages)
    IN  IF Len(messages) = 0 THEN 400
        ELSE IF i = 0 THEN 400
        ELSE IF messages[i].content = <<>> THEN 400
        ELSE 0

\* recordRequest(success)
recordRequest(s, success) ==
    [total |-> s.total + 1, success |-> s.success + (IF success THEN 1 ELSE 0)]

\* the content pieces one relay invocation can produce between its initial
\* chunk and its end
ReplyBodies ==
    {<<>>,
     <<Piece("chat", <<"a">>, Null)>>,
     <<Piece("chat", <<"\t">>, Null)>>}

\* how a relay invocation ends: normally with these pieces, or in its catch block
RelayOutcomes ==
    {[failed |-> FALSE, body |-> b] : b \in ReplyBodies}
      \cup {[failed |-> TRUE, body |-> <<>>]}

\* the chunks streamChatGenerator yields
streamOutput(o) ==
    <<Piece("initial", <<>>, Null)>>
      \o (IF o.failed
          THEN <<Piece("error", ErrorText, "stop"), DoneRecord>>
          ELSE o.body \o <<Piece("finish", <<>>, "stop"), DoneRecord>>)

\* the text made of the contents of a list of pieces: what nonStreamChat
\* returns, and what a client puts together from the deltas of a stream
contentOf(pieces) == Concat([i \in 1..Len(pieces) |-> pieces[i].content])

RECURSIVE uptoQuote(_)
uptoQuote(s) ==
    IF s = <<>> THEN <<>>
    ELSE IF Head(s) = "\"" THEN <<>>
    ELSE <<Head(s)>> \o uptoQuote(Tail(s))

\* text.match(/"content":"([^"]*)"/)[1] on one chunk: the serialized content
\* up to its first quote character; empty when the delta carries no content
matchContent(piece) ==
    IF piece.content = <<>> THEN <<>>
    ELSE uptoQuote(Concat([i \in 1..Len(piece.content) |-> JsonEscapeChar(piece.content[i])]))

RECURSIVE replaceEscapedNewlines(_)
\* .replace(/\\n/g, "\n")
replaceEscapedNewlines(s) ==
    IF Len(s) < 2 THEN s
    ELSE IF s[1] = "\\" /\ s[2] = "n"
         THEN <<"\n">> \o replaceEscapedNewlines(SubSeq(s, 3, Len(s)))
         ELSE <<s[1]>> \o replaceEscapedNewlines(Tail(s))

\* assembledContent of wrappedGenerator after the last chunk
assembledContent(chunks) ==
    Concat([i \in 1..Len(chunks) |-> replaceEscapedNewlines(matchContent(chunks[i]))])

Whitespace == {" ", "\n", "\t"}
RECURSIVE trimStart(_)
trimStart(s) ==
    IF s # <<>> /\ Head(s) \in Whitespace THEN trimStart(Tail(s)) ELSE s
RECURSIVE trimEnd(_)
trimEnd(s) ==
    IF s # <<>> /\ s[Len(s)] \in Whitespace THEN trimEnd(SubSeq(s, 1, Len(s) - 1)) ELSE s
\* String.prototype.trim
trim(s) == trimEnd(trimStart(s))

RECURSIVE receivedBy(_)
\* the number of requests received from a set of clients
receivedBy(cs) ==
    IF cs = {} THEN 0
    ELSE LET c == CHOOSE x \in cs : TRUE
         IN  reqs[c].n + receivedBy(cs \ {c})

\* what the Authorization header can hold (lines 24-68): the caller's own
\* cookie, the pool access key, or anything else
AuthKinds == {"cookie", "key", "other"}

\* mutant: a request refused for want of a credential is counted as failed
countRefused(s) == recordRequest(s, FALSE)

\* the 503 return at lines 48-56 leaves the statistics alone
statsWhenRefused(s) == s

\* whether c.req.json() returns or throws (lines 70-78)
JsonKinds == {"ok", "bad"}

\* what is wrong with a request that carries a credential: its body, its
\* message list, or the credential when the token is asked for
defectOf(json, messages, jwt) ==
    IF json = "bad" THEN "json"
    ELSE IF Len(messages) = 0 THEN "empty"
    ELSE IF lastUserIndex(messages) = 0 THEN "nouser"
    ELSE IF messages[lastUserIndex(messages)].content = <<>> THEN "nouser"
    ELSE IF jwt = "fail" THEN "token"
    ELSE Null

\* mutant: the lookup, which deletes an expired record, runs before the checks
lookupBeforeChecks(store, found) == found[2]

\* the returns at lines 70-122 come before findExistingConversation (125)
storeWhenRejected(store, found) == store

\* lines 22-160 / 22-205: authorization, body checks, token, lookup, start of
\* the relay.  The clients are named in the order of their first requests.
Receive ==
    \E c \in {x \in Clients : /\ reqs[x].pc \in {"idle", "done"}
                              /\ receivedBy(Clients) < MaxRequests
                              /\ x = "k1" \/ reqs["k1"].n > 0} :
     \E body \in FirstBodies \cup FollowUpBodies(c) :
      \E valid \in {validationStatus(body.messages)},
         found \in {findExistingConversation(kv, body.messages, body.model, now)} :
        \E auth \in AuthKinds, jwt \in {"ok", "fail"}, json \in JsonKinds :
         \E availableCookie \in {IF auth = "key" THEN getAvailableCookie(cookies) ELSE NoCookie} :
          LET rejected == [IdleRequest EXCEPT !.pc = "done", !.n = reqs[c].n + 1,
                                              !.auth = auth]
              usedCookieId == IF auth = "key" THEN availableCookie.id ELSE Null
              bad == IF json = "bad" THEN 400 ELSE valid
              defect == defectOf(json, body.messages, jwt)
              accepted ==
                  [rejected EXCEPT
                     !.pc = "relaying", !.messages = body.messages,
                     !.model = body.model, !.stream = body.stream,
                     !.usedCookieId = usedCookieId,
                     !.chatHistoryId = IF found[1] = Null
                                       THEN randomUUID(uuids + 1) ELSE found[1],
                     !.after = IF body \in FollowUpBodies(c)
                               THEN [op |-> "follow", id |-> reqs[c].chatHistoryId,
                                     model |-> reqs[c].model, reply |-> reqs[c].reply,
                                     inTime |-> now - reqs[c].doneAt < CONVERSATION_TTL_MS]
                               ELSE None]
          IN  /\ IF auth = "other"
                 THEN /\ reqs' = [reqs EXCEPT ![c] = [rejected EXCEPT !.status = 401]]
                      /\ UNCHANGED <<kv, uuids, stats, cookies>>
                 ELSE IF auth = "key" /\ availableCookie = NoCookie
                 THEN /\ reqs' = [reqs EXCEPT ![c] = [rejected EXCEPT !.status = 503]]
                      /\ stats' = statsWhenRefused(stats)
                      /\ UNCHANGED <<kv, uuids, cookies>>
                 ELSE IF bad # 0
                 THEN /\ reqs' = [reqs EXCEPT ![c] = [rejected EXCEPT !.status = bad,
                                                                       !.defect = defect]]
                      /\ kv' = storeWhenRejected(kv, found)
                      /\ UNCHANGED <<uuids, stats, cookies>>
                 ELSE IF jwt = "fail"
                 THEN /\ reqs' = [reqs EXCEPT ![c] = [rejected EXCEPT !.status = 401,
                                                                       !.defect = defect]]
                      /\ stats' = recordRequest(stats, FALSE)
                      /\ kv' = storeWhenRejected(kv, found)
                      /\ UNCHANGED <<uuids, cookies>>
                 ELSE /\ kv' = found[2]
                      /\ uuids' = (IF found[1] = Null THEN uuids + 1 ELSE uuids)
                      /\ reqs' = [reqs EXCEPT ![c] = accepted]
                      /\ stats' = (IF body.stream THEN recordRequest(stats, TRUE) ELSE stats)
                      /\ cookies' = (IF body.stream /\ usedCookieId # Null
                                     THEN recordCookieUsage(cookies, usedCookieId)
                                     ELSE cookies)
              /\ UNCHANGED <<now, lastReg, lastLookup, picked, relayVars, formsVars, iterVars, taskVars>>

\* lines 162-191 / 206-229: the relay has ended; the reply is registered and
\* the response completes.  In the streaming branch kv.set is issued before
\* the generator returns, that is before the response body ends.
Complete ==
    \E c \in {x \in Clients : reqs[x].pc = "relaying"}, o \in RelayOutcomes :
      \E r \in {reqs[c]} :
        \E ok \in {r.stream \/ ~o.failed},
           reply \in {IF r.stream THEN contentOf(streamOutput(o)) ELSE contentOf(o.body)},
           text \in {IF r.stream THEN trim(assembledContent(streamOutput(o)))
                     ELSE trim(contentOf(o.body))} :
            /\ kv' = (IF ok /\ text # <<>>
                      THEN registerConversation(kv,
                               r.messages \o <<ChatMessage("assistant", text)>>,
                               r.model, r.chatHistoryId, now)
                      ELSE kv)
            /\ stats' = (IF r.stream THEN stats ELSE recordRequest(stats, ok))
            /\ cookies' = (IF ~r.stream /\ ok /\ r.usedCookieId # Null
                           THEN recordCookieUsage(cookies, r.usedCookieId)
                           ELSE cookies)
            /\ reqs' = [reqs EXCEPT ![c] =
                          [r EXCEPT !.pc = "done", !.status = (IF ok THEN 200 ELSE 500),
                                    !.failed = o.failed,
                                    !.stream = FALSE, !.reply = reply, !.doneAt = now,
                                    !.usedCookieId = Null]]
            /\ UNCHANGED <<now, uuids, lastReg, lastLookup, picked, relayVars, formsVars, iterVars, taskVars>>

OrchNext == Receive \/ Complete \/ Tick \/ KvExpire

InitOrch == PoolIdle /\ ConvInit /\ RelayIdle /\ OrchIdle /\ IterIdle /\ TasksIdle /\ FormsIdle

SpecOrch == InitOrch /\ [][OrchNext]_vars

-----------------------------------------------------------------------------
(* Claims about the orchestrator                                           *)

\* PUT /admin/api/cookies/:id with {status}: updateCookie
UpdateCookieStatus ==
    \E i \in 1..Len(cookies), status \in {"active", "inactive"} :
        /\ cookies[i].status # status
        /\ cookies' = [cookies EXCEPT ![i].status = status]
        /\ UNCHANGED <<picked, convVars, relayVars, orchVars, formsVars, iterVars, taskVars>>

\* DELETE /admin/api/cookies/:id: deleteCookie
DeleteCookie ==
    \E i \in 1..Len(cookies) :
        /\ cookies' = SubSeq(cookies, 1, i - 1) \o SubSeq(cookies, i + 1, Len(cookies))
        /\ UNCHANGED <<picked, convVars, relayVars, orchVars, formsVars, iterVars, taskVars>>

OrchPoolNext == Receive \/ Complete \/ UpdateCookieStatus \/ DeleteCookie

\* one stored credential, active and unused
InitOrchPool ==
    /\ cookies = <<CookieData(CookieIds[1], "active", 0)>>
    /\ picked = None
    /\ ConvInit /\ RelayIdle /\ OrchIdle /\ IterIdle /\ TasksIdle /\ FormsIdle

SpecOrchPool == InitOrchPool /\ [][OrchPoolNext]_vars

\* C20: a request that presents the pool access key while no credential is
\* active ends with status 503, without a relay (no token, no channel), and
\* the conversation store, the pool, its usage counters and the request
\* statistics are as before.
C20_NoCredentialGives503 ==
    [][ \A c \in Clients :
          ( /\ reqs'[c].n = reqs[c].n + 1
            /\ reqs'[c].auth = "key"
            /\ ActiveIn(cookies) = {} )
            => /\ reqs'[c].status = 503
               /\ reqs'[c].pc = "done"
               /\ UNCHANGED <<kv, cookies, stats, uuids>> ]_vars

\* refused while the pool holds a used, now inactive credential and a
\* conversation is on record
C20_Witness ==
    /\ \E c \in Clients : reqs[c].status = 503 /\ reqs[c].auth = "key"
    /\ ActiveIn(cookies) = {}
    /\ Len(cookies) = 1
    /\ cookies[1].requestCount >= 1
    /\ kv # <<>>

\* C21: a request for which the pool selected a credential counts one use of
\* that credential whatever its outcome: a request that ends before the relay
\* (invalid body, no token) has counted it when it ends, and so has a
\* non-streaming request when its relay has ended, failed or not.
C21_UsageCountedWhateverTheOutcome ==
    [][ \A c \in Clients :
          /\ ( /\ reqs'[c].n = reqs[c].n + 1
               /\ reqs'[c].auth = "key"
               /\ ActiveIn(cookies) # {}
               /\ reqs'[c].pc = "done" )
               => cookies' = recordCookieUsage(cookies, getAvailableCookie(cookies).id)
          /\ ( /\ reqs[c].pc = "relaying" /\ reqs'[c].pc = "done"
               /\ reqs[c].auth = "key"
               /\ ~reqs[c].stream )
               => cookies' = recordCookieUsage(cookies, reqs[c].usedCookieId) ]_vars

\* C22: the credential a relay was started with stays in the pool until that
\* relay has ended.
C22_CredentialOutlivesRelay ==
    \A c \in Clients :
        (reqs[c].pc = "relaying" /\ reqs[c].usedCookieId # Null)
            => \E i \in 1..Len(cookies) : cookies[i].id = reqs[c].usedCookieId

\* C24: the store is written for a request only when its relay has ended:
\* nothing is written while the request is received; when the relay ends with
\* a reply that is empty after trimming the store stays as it is, otherwise
\* exactly one record is written, holding the request's model and upstream
\* conversation id.
C24_RecordOnlyForNonEmptyReply ==
    [][ \A c \in Clients :
          /\ reqs'[c].n = reqs[c].n + 1 =>
                \A k \in DOMAIN kv' : k \in DOMAIN kv /\ kv'[k] = kv[k]
          /\ (reqs[c].pc = "relaying" /\ reqs'[c].pc = "done") =>
                IF trim(reqs'[c].reply) = <<>>
                THEN kv' = kv
                ELSE \E k \in DOMAIN kv' :
                       kv' = kvSet(kv, k, [chatHistoryId |-> reqs[c].chatHistoryId,
                                           model |-> reqs[c].model,
                                           lastUpdated |-> now]) ]_vars

\* C26: a request that carries a credential and whose body cannot be parsed,
\* whose message list is empty or which has no user message is answered 400,
\* and one whose credential yields no token is answered 401; the handler then
\* ends without starting a relay, and the conversation store is as before.
C26_ClientErrorsLeaveStoreAlone ==
    [][ \A c \in Clients :
          (reqs'[c].n = reqs[c].n + 1 /\ reqs'[c].status \notin {503} /\ reqs'[c].auth # "other") =>
             /\ reqs'[c].defect \in {"json", "empty", "nouser"} <=> reqs'[c].status = 400
             /\ reqs'[c].defect = "token" <=> reqs'[c].status = 401
             /\ reqs'[c].status \in {400, 401} =>
                   /\ reqs'[c].pc = "done"
                   /\ kv' = kv
                   /\ uuids' = uuids ]_vars

\* one client was answered 400 and the other 401 while a conversation record
\* is in the store
C26_Witness ==
    /\ DOMAIN kv # {}
    /\ \E c, d \in Clients :
          /\ reqs[c].status = 400 /\ reqs[c].defect = "json"
          /\ reqs[d].status = 401 /\ reqs[d].defect = "token"

\* C39: when the relay of a request ended in its catch block (the channel
\* failed to open, or the relay threw), the handler writes no conversation
\* record, in the streaming form as in the non-streaming form.
C39_FailedRelayRegistersNothing ==
    [][ \A c \in Clients :
          (reqs[c].pc = "relaying" /\ reqs'[c].pc = "done" /\ reqs'[c].failed)
             => kv' = kv ]_vars

IsFollowUpInTime(c) ==
    /\ reqs[c].after.op = "follow"
    /\ trim(reqs[c].after.reply) # <<>>
    /\ reqs[c].model = reqs[c].after.model
    /\ reqs[c].after.inTime

\* C5: when a chat-completions request was fully delivered with a non-empty
\* reply, a follow-up request sent within the TTL with the same model and with
\* the previous messages, the delivered reply and one new user message is
\* relayed on the upstream conversation id of the previous request.
C5_FollowUpKeepsConversation ==
    \A c \in Clients :
        IsFollowUpInTime(c) => reqs[c].chatHistoryId = reqs[c].after.id

-----------------------------------------------------------------------------
(* wsMessageIterator, src/unnamed/part_002:63-113.  JavaScript runs the      *)
(* handlers and the generator one at a time: a handler runs whole, and the   *)
(* generator runs from one suspension (its await, a yield) to the next.      *)
(*   itPc = "created"   the generator object exists, its body has not run    *)
(*   itPc = "awaiting"  suspended at the await of line 91                    *)
(*   itPc = "woken"     the awaited promise is resolved, the body not resumed*)
(*   itPc = "yield"     suspended at a yield, the consumer has the event     *)
(*   itPc = "ended"     the generator has returned                           *)

MaxArrivals == 4

\* the events the channel can deliver; x and y stand for two message texts
IterEvents ==
    {[type |-> "message", data |-> d] : d \in {"x", "y"}}
      \cup {[type |-> "close", data |-> Null], [type |-> "error", data |-> Null]}

IterInit ==
    /\ queue = <<>>
    /\ resolver = Null
    /\ itPc = "created"
    /\ yielded = <<>>
    /\ arrived = <<>>

\* mutant: the newest queued event is taken
popLast(q) == [item |-> q[Len(q)], rest |-> SubSeq(q, 1, Len(q) - 1)]

\* queue.shift() (line 96)
shift(q) == [item |-> Head(q), rest |-> Tail(q)]

\* lines 89-111 from the loop head to the next suspension: await when the
\* queue is empty, otherwise shift one event and yield it
LoopHead ==
    IF queue = <<>>
    THEN /\ resolver' = "pending"
         /\ itPc' = "awaiting"
         /\ UNCHANGED <<queue, yielded>>
    ELSE /\ queue' = shift(queue).rest
         /\ yielded' = Append(yielded, shift(queue).item)
         /\ itPc' = "yield"
         /\ UNCHANGED resolver

\* the consumer's first next(): lines 71-87 install the handlers, then the loop.
\* `for await (... of wsMessageIterator(ws))` creates the generator and calls
\* next() in one synchronous run, so no event arrives in between.
IterStart ==
    /\ itPc = "created"
    /\ LoopHead
    /\ UNCHANGED <<arrived, convVars, relayVars, orchVars, formsVars, poolVars, taskVars>>

\* ws.onmessage / onclose / onerror (lines 74-87): push, then resolver?.().
\* A closed channel delivers nothing more; after an error it only closes.
Arrive ==
    /\ itPc # "created"
    /\ Len(arrived) < MaxArrivals
    /\ \E e \in IterEvents :
        /\ \A i \in 1..Len(arrived) :
              /\ arrived[i].type # "close"
              /\ arrived[i].type = "error" => e.type = "close"
        /\ queue' = Append(queue, e)
        /\ arrived' = Append(arrived, e)
    /\ resolver' = (IF resolver = "pending" THEN "resolved" ELSE resolver)
    /\ itPc' = (IF itPc = "awaiting" THEN "woken" ELSE itPc)
    /\ UNCHANGED <<yielded, convVars, relayVars, orchVars, formsVars, poolVars, taskVars>>

\* the body resumes after the await (lines 96-111)
Resume ==
    /\ itPc = "woken"
    /\ LoopHead
    /\ UNCHANGED <<arrived, convVars, relayVars, orchVars, formsVars, poolVars, taskVars>>

\* the consumer's next() while the generator is suspended at a yield: break
\* after a close or an error (lines 101, 106), otherwise the loop goes on
ConsumerNext ==
    /\ itPc = "yield"
    /\ IF yielded[Len(yielded)].type \in {"close", "error"}
       THEN /\ itPc' = "ended"
            /\ UNCHANGED <<queue, resolver, yielded>>
       ELSE LoopHead
    /\ UNCHANGED <<arrived, convVars, relayVars, orchVars, formsVars, poolVars, taskVars>>

IterNext == IterStart \/ Arrive \/ Resume \/ ConsumerNext

InitIter ==
    PoolIdle /\ ConvInit /\ RelayIdle /\ OrchIdle /\ FormsIdle /\ TasksIdle /\ IterInit

SpecIter == InitIter /\ [][IterNext]_vars

\* the position of the first close or error among the arrived events, 0 if none
FirstEnd ==
    LET ends == {i \in 1..Len(arrived) : arrived[i].type \in {"close", "error"}}
    IN  IF ends = {} THEN 0 ELSE CHOOSE i \in ends : \A j \in ends : i <= j

\* C33: the events yielded so far, followed by the events still queued, are the
\* events that arrived, in arrival order, so none is lost, repeated or
\* reordered; the generator never waits while an event is queued; only the
\* last yielded event can be a close or an error, and once the generator has
\* ended it has yielded exactly the events up to the first close or error.
C33_IteratorKeepsOrder ==
    /\ yielded \o queue = arrived
    /\ itPc = "awaiting" => queue = <<>>
    /\ \A i \in 1..(Len(yielded) - 1) : yielded[i].type = "message"
    /\ itPc = "ended" => FirstEnd > 0 /\ yielded = SubSeq(arrived, 1, FirstEnd)

\* two different messages and an error were yielded in their order, and the
\* close that followed the error stays in the queue of the ended generator
C33_Witness ==
    /\ itPc = "ended"
    /\ Len(yielded) = 3
    /\ yielded[1].type = "message" /\ yielded[2].type = "message"
    /\ yielded[1].data # yielded[2].data
    /\ yielded[3].type = "error"
    /\ Len(queue) = 1

-----------------------------------------------------------------------------
(* The conversation store under concurrent requests.  Each request handler  *)
(* is an async function: it runs alone between two awaits, and at an await   *)
(* of a KV operation other handlers run.  One KV operation is atomic.        *)
(* A task is one call in progress, suspended at an await:                    *)
(*   register  pc "set"     kv.set of line 136 is under way                 *)
(*   lookup    pc "sweep"   in cleanupExpiredConversations (line 71), with   *)
(*                          the keys still to delete in todo                 *)
(*             pc "delete"  kv.delete of line 102 is under way               *)

TaskIds == {"t1", "t2"}
MaxCalls == 2

\* a task that has made n calls and is making none
IdleTask(n) == [op |-> "none", calls |-> n]

TasksInit == tasks = [t \in TaskIds |-> IdleTask(0)]

\* the keys lookups ask for: those of the bounded histories, the empty one
\* (a first turn) included
RaceKeys == {kvKeyOf(normalizeMessages(h)) : h \in Histories}

\* the keys records are written under: a registered history is never empty
RegisterKeys ==
    {kvKeyOf(normalizeMessages(h)) : h \in {x \in Histories : normalizeMessages(x) # <<>>}}

\* registerConversation up to its await (lines 125-136): the key and the
\* record, stamped with Date.now(), are fixed; the write is under way
RegisterCall(t) ==
    /\ tasks[t].op = "none" /\ tasks[t].calls < MaxCalls
    /\ \E key \in RegisterKeys, id \in ChatIds :
         tasks' = [tasks EXCEPT ![t] =
                     [op |-> "register", pc |-> "set", calls |-> tasks[t].calls,
                      key |-> key,
                      state |-> [chatHistoryId |-> id, model |-> "ClaudeSonnet4_5",
                                 lastUpdated |-> now]]]
    /\ UNCHANGED <<convVars, relayVars, orchVars, formsVars, poolVars, iterVars>>

\* kv.set takes effect (line 136)
RegisterSet(t) ==
    /\ tasks[t].op = "register"
    /\ kv' = kvSet(kv, tasks[t].key, tasks[t].state)
    /\ tasks' = [tasks EXCEPT ![t] = IdleTask(tasks[t].calls + 1)]
    /\ UNCHANGED <<now, lastReg, lastLookup, relayVars, orchVars, formsVars, poolVars, iterVars>>

\* findExistingConversation enters cleanupExpiredConversations (lines 71,
\* 145-149): Date.now() is read, kv.list delivers the entries, those whose
\* listed value is older than the TTL are to be deleted
LookupCall(t) ==
    /\ tasks[t].op = "none" /\ tasks[t].calls < MaxCalls
    /\ \E key \in RaceKeys :
         tasks' = [tasks EXCEPT ![t] =
                     [op |-> "lookup", pc |-> "sweep", calls |-> tasks[t].calls,
                      key |-> key,
                      todo |-> {k \in DOMAIN kv : Expired(kv[k], now)}]]
    /\ UNCHANGED <<convVars, relayVars, orchVars, formsVars, poolVars, iterVars>>

\* one kv.delete of the sweep takes effect (line 150)
SweepDelete(t) ==
    /\ tasks[t].op = "lookup" /\ tasks[t].pc = "sweep"
    /\ \E k \in tasks[t].todo :
        /\ kv' = kvDelete(kv, k)
        /\ tasks' = [tasks EXCEPT ![t].todo = @ \ {k}]
    /\ UNCHANGED <<now, lastReg, lastLookup, relayVars, orchVars, formsVars, poolVars, iterVars>>

\* kv.get returns (lines 91-111): absent, expired by the clock read now (the
\* delete is started), or a record
LookupGet(t) ==
    /\ tasks[t].op = "lookup" /\ tasks[t].pc = "sweep" /\ tasks[t].todo = {}
    /\ tasks' = [tasks EXCEPT ![t] =
                   IF tasks[t].key \in DOMAIN kv /\ Expired(kv[tasks[t].key], now)
                   THEN [tasks[t] EXCEPT !.pc = "delete"]
                   ELSE IdleTask(tasks[t].calls + 1)]
    /\ UNCHANGED <<convVars, relayVars, orchVars, formsVars, poolVars, iterVars>>

\* kv.delete of line 102 takes effect
LookupDelete(t) ==
    /\ tasks[t].op = "lookup" /\ tasks[t].pc = "delete"
    /\ kv' = kvDelete(kv, tasks[t].key)
    /\ tasks' = [tasks EXCEPT ![t] = IdleTask(tasks[t].calls + 1)]
    /\ UNCHANGED <<now, lastReg, lastLookup, relayVars, orchVars, formsVars, poolVars, iterVars>>

ConvRaceNext ==
    \/ Tick
    \/ \E t \in TaskIds : RegisterCall(t)
    \/ \E t \in TaskIds : RegisterSet(t)
    \/ \E t \in TaskIds : LookupCall(t)
    \/ \E t \in TaskIds : SweepDelete(t)
    \/ \E t \in TaskIds : LookupGet(t)
    \/ \E t \in TaskIds : LookupDelete(t)

InitConvRace ==
    PoolIdle /\ ConvInit /\ RelayIdle /\ OrchIdle /\ FormsIdle /\ IterIdle /\ TasksInit

SpecConvRace == InitConvRace /\ [][ConvRaceNext]_vars

\* C34: whenever a record leaves the store, the record stored under that key
\* at that moment is older than the TTL, in every interleaving of sweeps and
\* expiry deletes with registrations.
C34_PurgeNeverRemovesLiveRecord ==
    [][ \A k \in DOMAIN kv :
          k \notin DOMAIN kv' => now - kv[k].lastUpdated > CONVERSATION_TTL_MS ]_vars

-----------------------------------------------------------------------------
(* The credential pool under concurrent requests, src/src/services/cookie.ts *)
(* A task is one call in progress, suspended at its second await:            *)
(*   usage   pc "set"   recordCookieUsage has read the credential, its       *)
(*                      kv.set (line 154) is under way                       *)
(*   update  pc "set"   updateCookie has read the credential, its kv.set     *)
(*                      (line 76) is under way                               *)
(* deleteCookie has one await, the kv.delete itself.                         *)

RaceCookieIds == {CookieIds[1], CookieIds[2]}

\* a task that has made n calls and is making none; recorded[id] counts its
\* completed recordCookieUsage(id) calls that found the credential; last is the
\* response of the admin route it called last, None when its last call was
\* not that of a route
PoolTask(n, rec) == [op |-> "none", calls |-> n, recorded |-> rec, last |-> None]

PoolTasksInit ==
    tasks = [t \in TaskIds |-> PoolTask(0, [id \in RaceCookieIds |-> 0])]

PoolRaceInit ==
    /\ cookies = <<CookieData(CookieIds[1], "active", 0), CookieData(CookieIds[2], "active", 0)>>
    /\ picked = None

Stored(store, id) == \E i \in 1..Len(store) : store[i].id = id

\* kv.get(["cookies", id]).value
getCookie(store, id) ==
    IF Stored(store, id)
    THEN store[CHOOSE i \in 1..Len(store) : store[i].id = id]
    ELSE NoCookie

IdIndex(id) == CHOOSE i \in 1..Len(CookieIds) : CookieIds[i] = id

\* kv.set(["cookies", c.id], c): the entry is replaced, or created in key order
setCookie(store, c) ==
    IF Stored(store, c.id)
    THEN [i \in 1..Len(store) |-> IF store[i].id = c.id THEN c ELSE store[i]]
    ELSE SelectSeq(store, LAMBDA x : IdIndex(x.id) < IdIndex(c.id))
           \o <<c>>
           \o SelectSeq(store, LAMBDA x : IdIndex(x.id) > IdIndex(c.id))

\* kv.delete(["cookies", id])
removeCookie(store, id) == SelectSeq(store, LAMBDA x : x.id # id)

\* recordCookieUsage up to its second await (lines 150-154): the credential is
\* read; if it is there, the copy with requestCount + 1 is being written
UsageGet(t) ==
    /\ tasks[t].op = "none" /\ tasks[t].calls < MaxCalls
    /\ \E id \in RaceCookieIds :
        LET cookie == getCookie(cookies, id)
        IN  tasks' = [tasks EXCEPT ![t] =
                        IF cookie = NoCookie
                        THEN PoolTask(tasks[t].calls + 1, tasks[t].recorded)
                        ELSE [op |-> "usage", pc |-> "set", calls |-> tasks[t].calls,
                              recorded |-> tasks[t].recorded,
                              cookie |-> [cookie EXCEPT !.requestCount = @ + 1]]]
    /\ UNCHANGED <<convVars, relayVars, orchVars, formsVars, poolVars, iterVars>>

\* kv.set of recordCookieUsage takes effect (line 154)
UsageSet(t) ==
    /\ tasks[t].op = "usage"
    /\ cookies' = setCookie(cookies, tasks[t].cookie)
    /\ tasks' = [tasks EXCEPT ![t] =
                   PoolTask(tasks[t].calls + 1,
                            [tasks[t].recorded EXCEPT ![tasks[t].cookie.id] = @ + 1])]
    /\ UNCHANGED <<picked, convVars, relayVars, orchVars, formsVars, iterVars>>

\* updateCookie(id, {status: "inactive"}) up to its second await (lines 72-76)
UpdateGet(t) ==
    /\ tasks[t].op = "none" /\ tasks[t].calls < MaxCalls
    /\ \E id \in RaceCookieIds :
        LET cookie == getCookie(cookies, id)
        IN  tasks' = [tasks EXCEPT ![t] =
                        IF cookie = NoCookie
                        THEN PoolTask(tasks[t].calls + 1, tasks[t].recorded)
                        ELSE [op |-> "update", pc |-> "set", calls |-> tasks[t].calls,
                              recorded |-> tasks[t].recorded,
                              cookie |-> [cookie EXCEPT !.status = "inactive"]]]
    /\ UNCHANGED <<convVars, relayVars, orchVars, formsVars, poolVars, iterVars>>

\* kv.set of updateCookie takes effect (line 76)
UpdateSet(t) ==
    /\ tasks[t].op = "update"
    /\ cookies' = setCookie(cookies, tasks[t].cookie)
    /\ tasks' = [tasks EXCEPT ![t] = PoolTask(tasks[t].calls + 1, tasks[t].recorded)]
    /\ UNCHANGED <<picked, convVars, relayVars, orchVars, formsVars, iterVars>>

\* the ids an admin can ask to delete: the stored ones and one never stored
DeleteIds == RaceCookieIds \cup {CookieIds[3]}

\* what deleteCookie(id) returns (cookie.ts:83-86)
deleteCookie(store, id) == TRUE

\* DELETE /admin/api/cookies/:id (admin.ts:227-240): deleteCookie(id), then
\* 404 when it returned false, success otherwise
DeleteTask(t) ==
    /\ tasks[t].op = "none" /\ tasks[t].calls < MaxCalls
    /\ \E id \in DeleteIds :
        /\ cookies' = removeCookie(cookies, id)
        /\ tasks' = [tasks EXCEPT ![t] =
                       [PoolTask(tasks[t].calls + 1, tasks[t].recorded) EXCEPT
                          !.last = [op |-> "delete", id |-> id,
                                    status |-> IF deleteCookie(cookies, id)
                                               THEN 200 ELSE 404]]]
    /\ UNCHANGED <<picked, convVars, relayVars, orchVars, formsVars, iterVars>>

\* concurrent requests that only record usage
UsageRaceNext ==
    \/ \E t \in TaskIds : UsageGet(t)
    \/ \E t \in TaskIds : UsageSet(t)

\* concurrent requests and admin calls
PoolRaceNext ==
    \/ \E t \in TaskIds : UsageGet(t)
    \/ \E t \in TaskIds : UsageSet(t)
    \/ \E t \in TaskIds : UpdateGet(t)
    \/ \E t \in TaskIds : UpdateSet(t)
    \/ \E t \in TaskIds : DeleteTask(t)

InitPoolRace ==
    PoolRaceInit /\ ConvInit /\ RelayIdle /\ OrchIdle /\ FormsIdle /\ IterIdle /\ PoolTasksInit

SpecUsageRace == InitPoolRace /\ [][UsageRaceNext]_vars
SpecPoolRace == InitPoolRace /\ [][PoolRaceNext]_vars

RECURSIVE RecordedBy(_, _)
\* the completed recordCookieUsage(id) calls of a set of tasks
RecordedBy(ts, id) ==
    IF ts = {} THEN 0
    ELSE LET t == CHOOSE x \in ts : TRUE
         IN  tasks[t].recorded[id] + RecordedBy(ts \ {t}, id)

\* C35: with requests that only record usage, requestCount never decreases,
\* and whenever no recordCookieUsage(id) is in progress the requestCount of id
\* has grown by the number of recordCookieUsage(id) calls completed.
C35_NoUsageUpdateLost ==
    /\ [](\A i \in 1..Len(cookies) :
            (\A t \in TaskIds : tasks[t].op = "usage" => tasks[t].cookie.id # cookies[i].id)
               => cookies[i].requestCount = RecordedBy(TaskIds, cookies[i].id))
    /\ [][\A i \in 1..Len(cookies) :
            cookies'[i].requestCount >= cookies[i].requestCount]_vars

\* C36: the write of a recordCookieUsage(id) that was in progress never
\* brings back a credential that is no longer stored, and never turns a
\* credential that is stored inactive into an active one.
C36_UsageNeverUndoesAdminChange ==
    [][ \A t \in TaskIds :
          (tasks[t].op = "usage" /\ tasks'[t].op = "none") =>
             LET id == tasks[t].cookie.id
             IN  /\ ~Stored(cookies, id) => ~Stored(cookies', id)
                 /\ (Stored(cookies, id) /\ getCookie(cookies, id).status = "inactive")
                       => getCookie(cookies', id).status = "inactive" ]_vars

-----------------------------------------------------------------------------
(* deleteConversation, src/src/services/conversation.ts:181-220             *)

\* what the upstream DELETE can do: answer with a status, or throw
UpstreamStatuses == {200, 204, 401, 404, 500}
UpstreamAnswers ==
    [thrown : {FALSE}, status : UpstreamStatuses] \cup {[thrown |-> TRUE, status |-> 0]}

\* response.ok
ResponseOk(status) == status >= 200 /\ status <= 299

\* mutant: a 404 from upstream is reported as a failure
deleteStrict(store, chatHistoryId, answer) ==
    IF answer.thrown \/ ~ResponseOk(answer.status)
    THEN [success |-> FALSE, store |-> store]
    ELSE [success |-> TRUE,
          store |-> [k \in {x \in DOMAIN store : store[x].chatHistoryId # chatHistoryId}
                       |-> store[k]]]

\* deleteConversation: its result and the store afterwards
deleteConversation(store, chatHistoryId, answer) ==
    IF answer.thrown
    THEN [success |-> FALSE, store |-> store]
    ELSE IF ~ResponseOk(answer.status) /\ answer.status # 404
    THEN [success |-> FALSE, store |-> store]
    ELSE [success |-> TRUE,
          store |-> [k \in {x \in DOMAIN store : store[x].chatHistoryId # chatHistoryId}
                       |-> store[k]]]

\* one call of deleteConversation; lastLookup keeps the call, its result and
\* the store it found
DeleteConversation ==
    \E id \in ChatIds, answer \in UpstreamAnswers :
        LET r == deleteConversation(kv, id, answer)
        IN  /\ kv' = r.store
            /\ lastLookup' = [op |-> "delete", id |-> id, answer |-> answer,
                              success |-> r.success, before |-> kv]
            /\ UNCHANGED <<now, lastReg, relayVars, orchVars, formsVars, poolVars, iterVars, taskVars>>

DeleteNext == Register \/ DeleteConversation

InitDelete == PoolIdle /\ ConvInit /\ RelayIdle /\ OrchIdle /\ FormsIdle /\ IterIdle /\ TasksIdle

SpecDelete == InitDelete /\ [][DeleteNext]_vars

\* C38: after deleteConversation(id), if the upstream answered with a success
\* status or 404, the result is success and the store holds exactly the
\* records it held whose chatHistoryId is not id, unchanged; if the upstream
\* answered anything else or the call threw, the result is a failure and the
\* store is as it was.
C38_DeleteConversationOutcome ==
    lastLookup.op = "delete" =>
      LET a == lastLookup.answer
          b == lastLookup.before
      IN  IF ~a.thrown /\ (a.status \in {200, 204} \/ a.status = 404)
          THEN /\ lastLookup.success
               /\ DOMAIN kv = {k \in DOMAIN b : b[k].chatHistoryId # lastLookup.id}
               /\ \A k \in DOMAIN kv : kv[k] = b[k]
          ELSE /\ ~lastLookup.success
               /\ kv = b

\* upstream answered 404; of two stored records the one of the deleted
\* conversation is gone and the other stays
C38_Witness ==
    /\ lastLookup.op = "delete"
    /\ lastLookup.answer.status = 404
    /\ lastLookup.success
    /\ Cardinality(DOMAIN lastLookup.before) = 2
    /\ Cardinality(DOMAIN kv) = 1

\* C40: a DELETE of a credential id that is not stored is answered 404 and
\* leaves the pool as it was; a DELETE of a stored id removes exactly that
\* credential and is answered with success.
C40_DeleteCookieOutcome ==
    [][ \A t \in TaskIds :
          (tasks'[t].op = "none" /\ tasks'[t].calls = tasks[t].calls + 1
             /\ tasks'[t].last.op = "delete") =>
            LET id == tasks'[t].last.id
            IN  IF Stored(cookies, id)
                THEN /\ tasks'[t].last.status = 200
                     /\ cookies' = removeCookie(cookies, id)
                ELSE /\ tasks'[t].last.status = 404
                     /\ cookies' = cookies ]_vars

====
